---- MODULE Spec2Model ----
(***************************************************************************)
(* BiliAudioDownloader: the in-memory task stores, the orchestrator        *)
(* process_video_task and the three protocol surfaces that create, read    *)
(* and cancel tasks (REST app/tasks.py, MCP JSON-RPC app/mcp_sse.py, MCP   *)
(* direct tool calls app/mcp_routes.py).                                   *)
(*                                                                         *)
(* Strings of the program are modelled as tuples of tokens, so that        *)
(* f-string concatenation is \o and "contains" is membership of a token.   *)
(* Python's None is the string "None" for scalar fields and the empty      *)
(* tuple for result_url.  A uuid4 task id is the next unused number.       *)
(***************************************************************************)
EXTENDS Integers, Sequences, FiniteSets, TLC

\* ------------------------------------------------------------------ bounds
\* create calls served
MaxTasks == 1
\* create calls served in the runs of several tasks (SpecMany)
MaxCreates == 2
\* segment files one split_audio call may produce
MaxSegs == 2
\* segment files the environment may delete
MaxRemovals == 1
\* ticks of the clock datetime.now() reads (SpecTime)
MaxClock == 2
\* event streams opened on GET /sse (SpecSse)
MaxStreams == 2
\* ping events one stream emits (SpecSse)
MaxPings == 2

\* ------------------------------------------------------------ program data
PENDING == "pending"
DOWNLOADING == "downloading"
PROCESSING == "processing"
COMPLETED == "completed"
FAILED == "failed"
CANCELLED == "cancelled"

TaskStatus == {PENDING, DOWNLOADING, PROCESSING, COMPLETED, FAILED, CANCELLED}

\* the statuses the cancel handlers call final ("任务已处于最终状态")
FinalStatuses == {COMPLETED, FAILED, CANCELLED}

None == "None"

\* the bv_number values a client sends
BvNumbers == {"X1"}

\* the ids create calls hand out, in this order (uuid4: never one already in use)
TaskIds == 1..(IF MaxCreates > MaxTasks THEN MaxCreates ELSE MaxTasks)

Surfaces == {"rest", "sse", "direct"}

VARIABLES
    task_storage,      \* app.tasks.task_storage (REST and mcp_sse share it by import)
    mcp_task_storage,  \* app.mcp_routes.task_storage (a dict of its own)
    origin,            \* origin[i]: the surface and bv_number of the i-th create call
    pc,                \* pc[t]: position of process_video_task(t), "none" if never scheduled
    error_message,     \* error_message[t]: str(e) in the except branch of process_video_task
    slice_files,       \* slice_files[t]: the sorted listing process_video_task(t) took
    calls,             \* calls[t]: the video_service methods process_video_task(t) invoked,
                       \* and "finalize" for its write of COMPLETED
    returns,           \* returns[t]: what those invocations returned
    disk,              \* disk[t]: the working directory temp/<t> and its slices/*.wav files
    removed,           \* number of segment files deleted by the environment
    handler,           \* the cancel handler the event loop is in the middle of, if any
    now,               \* datetime.now() and time.time()
    sessions,          \* app.mcp_sse.sessions
    streams            \* streams[i]: the i-th generate_sse(): its session_id, its
                       \* position and the events it has yielded

vars == <<task_storage, mcp_task_storage, origin, pc, error_message, slice_files, calls,
          returns, disk, removed, handler, now, sessions, streams>>

\* ------------------------------------------------------------- file names
\* '%03d.wav' of ffmpeg's segment muxer: the ordinal, zero-padded to three digits
Pad3(i) ==
    IF i < 1000 THEN <<i \div 100, (i \div 10) % 10, i % 10>>
    ELSE <<i \div 1000, (i \div 100) % 10, (i \div 10) % 10, i % 10>>

\* str.__lt__ on two file names (digit strings of any length)
RECURSIVE StrLess(_, _)
StrLess(a, b) ==
    IF a = <<>> THEN b # <<>>
    ELSE IF b = <<>> THEN FALSE
    ELSE IF Head(a) # Head(b) THEN Head(a) < Head(b)
    ELSE StrLess(Tail(a), Tail(b))

\* sorted(names): the list in ascending order of str comparison
sorted(names) == SortSeq(names, StrLess)

\* os.listdir(slices_dir) of a directory into which ffmpeg wrote `written` files:
\* the names still there, in an order that is not the sorted one (the file
\* written last comes first)
listdir(slices, written) ==
    SelectSeq([i \in 1..written |-> Pad3(written - i)], LAMBDA f : f \in slices)

\* os.path.join(slices_dir, f) for the slices directory of task_id
SegmentPath(task_id, f) == [task |-> task_id, name |-> f]

NoDisk == [dir |-> FALSE, slices |-> {}]

\* os.path.exists(segment_path)
path_exists(path) == disk[path.task].dir /\ path.name \in disk[path.task].slices

\* ----------------------------------------------------------- task stores
\* one record as update_task_status builds it
TaskRecord(task_id, status, progress, message, result_url) ==
    [task_id |-> task_id, status |-> status, progress |-> progress,
     message |-> message, created_at |-> now, updated_at |-> now,
     eta |-> None, processed_slices |-> None, total_slices |-> None,
     result_url |-> result_url]

\* a slip in lines 20-31: the store is replaced by the record of the task
update_task_status_replaces_store(store, task_id, status, progress, message, result_url) ==
    (task_id :> TaskRecord(task_id, status, progress, message, result_url))

\* app.tasks.update_task_status: task_storage[task_id] = {...}
update_task_status(store, task_id, status, progress, message, result_url) ==
    (task_id :> TaskRecord(task_id, status, progress, message, result_url)) @@ store

\* app.mcp_routes.update_task_status: the same assignment on mcp_routes.task_storage
mcp_update_task_status(store, task_id, status, progress, message, result_url) ==
    (task_id :> TaskRecord(task_id, status, progress, message, result_url)) @@ store

\* task_storage[task_id][key] = value
set_item(store, task_id, key, value) ==
    [store EXCEPT ![task_id] = (key :> value) @@ @]

\* "key in record"
HasKey(rec, key) == key \in DOMAIN rec

NoUrl == <<>>
segments_url(task_id) == <<"/api/v1/tasks/", task_id, "/segments">>

\* a slip in line 125: the id is made from the number of tasks served so far,
\* without the step to the next one
uuid4_reused == IF origin = <<>> THEN 1 ELSE Len(origin)

\* str(uuid.uuid4())
uuid4 == Len(origin) + 1

\* --------------------------------------------------------- video_service
\* what download_video may return: (success, message)
\* and whether os.makedirs(download_dir) had made temp/<task_id> by then
DownloadResults ==
    {[success |-> TRUE, message |-> <<"video download complete">>, made_dir |-> TRUE],
     [success |-> FALSE, message |-> <<"video download failed: ", "network timeout">>,
      made_dir |-> TRUE],
     [success |-> FALSE, message |-> <<"video download failed: ", "permission denied">>,
      made_dir |-> FALSE]}

\* what extract_audio may return: (success, message, audio_path)
ExtractResults ==
    {[success |-> TRUE, message |-> <<"audio extracted">>],
     [success |-> FALSE, message |-> <<"media file not found">>]}

\* what split_audio may return: (success, message, slices_dir), and the number of
\* files ffmpeg wrote into slices_dir
SplitResults ==
    {[success |-> TRUE, message |-> <<"audio split complete">>, files |-> k] : k \in 0..MaxSegs}
    \cup {[success |-> FALSE, message |-> <<"audio split failed: ", "ffmpeg error">>, files |-> 0]}

\* split_audio(audio_path, task_id, slice_length=45000): milliseconds; the
\* orchestrator passes no slice_length
slice_length == 45000

\* '-segment_time', str(slice_length / 1000): the seconds of one segment
segment_time == slice_length \div 1000

\* what os.listdir(slices_dir) may do
ListdirResults == {"ok", "raises"}

\* the directory split_audio leaves behind: slices/000.wav .. slices/(k-1).wav
SlicesWritten(k) == {Pad3(i) : i \in 0..(k - 1)}

\* cleanup_temp_files(task_id): rmtree of temp/<task_id> when it exists; a failing
\* rmtree is logged and leaves the directory
cleanup_temp_files(d, rmtree_ok) ==
    IF d.dir /\ rmtree_ok THEN NoDisk ELSE d

\* the event loop is between two handlers
Idle == [op |-> "idle"]

\* --------------------------------------------------- process_video_task
\* the metadata dict of a finished run
Metadata(task_id, bv_number, total_slices) ==
    [total_duration |-> total_slices * 30, segment_count |-> total_slices,
     bv_number |-> bv_number, task_id |-> task_id]

\* segments = [os.path.join(slices_dir, f) for f in slice_files]
Segments(task_id, files) == [i \in 1..Len(files) |-> SegmentPath(task_id, files[i])]

\* a slip in line 114: the message without the cause
FailedMessage_generic(msg) == <<"task failed">>

\* f"任务失败: {error_message}"
FailedMessage(msg) == <<"task failed: ">> \o msg

\* the steps of the orchestrator leave everything of the event loop alone
WorkerFrame == UNCHANGED <<mcp_task_storage, origin, removed, handler, now, sessions, streams>>

\* a slip in line 45: the first status written is PROCESSING
Begin_writes_processing(t) ==
    /\ pc[t] = "queued"
    /\ task_storage' = update_task_status(task_storage, t, PROCESSING, 0,
                                          <<"preparing">>, NoUrl)
    /\ calls' = [calls EXCEPT ![t] = Append(@, "download_video")]
    /\ pc' = [pc EXCEPT ![t] = "download_video"]
    /\ UNCHANGED <<error_message, slice_files, returns, disk>>
    /\ WorkerFrame

\* a slip before line 45: a run whose record is Cancelled returns at once
Begin_honours_cancel(t) ==
    /\ pc[t] = "queued"
    /\ IF task_storage[t].status = CANCELLED
       THEN /\ pc' = [pc EXCEPT ![t] = "done"]
            /\ UNCHANGED <<task_storage, calls>>
       ELSE /\ task_storage' = update_task_status(task_storage, t, DOWNLOADING, 0,
                                                  <<"preparing">>, NoUrl)
            /\ calls' = [calls EXCEPT ![t] = Append(@, "download_video")]
            /\ pc' = [pc EXCEPT ![t] = "download_video"]
    /\ UNCHANGED <<error_message, slice_files, returns, disk>>
    /\ WorkerFrame

\* line 45: status DOWNLOADING, then download_video is called
Begin(t) ==
    /\ pc[t] = "queued"
    /\ task_storage' = update_task_status(task_storage, t, DOWNLOADING, 0,
                                          <<"preparing">>, NoUrl)
    /\ calls' = [calls EXCEPT ![t] = Append(@, "download_video")]
    /\ pc' = [pc EXCEPT ![t] = "download_video"]
    /\ UNCHANGED <<error_message, slice_files, returns, disk>>
    /\ WorkerFrame

\* lines 49-53: download_video returns; on success status PROCESSING 30 and
\* extract_audio is called, otherwise the exception is raised
DownloadReturn(t, r) ==
    /\ pc[t] = "download_video"
    /\ returns' = [returns EXCEPT ![t] = Append(@, r)]
    /\ disk' = [disk EXCEPT ![t] = [dir |-> r.made_dir, slices |-> {}]]
    /\ IF r.success
       THEN /\ task_storage' = update_task_status(task_storage, t, PROCESSING, 30,
                                  <<"download complete, extracting audio">>, NoUrl)
            /\ calls' = [calls EXCEPT ![t] = Append(@, "extract_audio")]
            /\ pc' = [pc EXCEPT ![t] = "extract_audio"]
            /\ UNCHANGED error_message
       ELSE /\ error_message' = [error_message EXCEPT ![t] =
                                    <<"video download failed: ">> \o r.message]
            /\ pc' = [pc EXCEPT ![t] = "except"]
            /\ UNCHANGED <<task_storage, calls>>
    /\ UNCHANGED slice_files
    /\ WorkerFrame

\* a slip in lines 56-58: the result of extract_audio is not looked at
ExtractReturn_ignores_failure(t, r) ==
    /\ pc[t] = "extract_audio"
    /\ returns' = [returns EXCEPT ![t] = Append(@, r)]
    /\ task_storage' = update_task_status(task_storage, t, PROCESSING, 60,
                          <<"audio extracted, segmenting">>, NoUrl)
    /\ calls' = [calls EXCEPT ![t] = Append(@, "split_audio")]
    /\ pc' = [pc EXCEPT ![t] = "split_audio"]
    /\ UNCHANGED <<error_message, slice_files, disk>>
    /\ WorkerFrame

\* lines 56-60: extract_audio returns; on success PROCESSING 60 and split_audio is
\* called
ExtractReturn(t, r) ==
    /\ pc[t] = "extract_audio"
    /\ returns' = [returns EXCEPT ![t] = Append(@, r)]
    /\ IF r.success
       THEN /\ task_storage' = update_task_status(task_storage, t, PROCESSING, 60,
                                  <<"audio extracted, segmenting">>, NoUrl)
            /\ calls' = [calls EXCEPT ![t] = Append(@, "split_audio")]
            /\ pc' = [pc EXCEPT ![t] = "split_audio"]
            /\ UNCHANGED error_message
       ELSE /\ error_message' = [error_message EXCEPT ![t] =
                                    <<"audio extraction failed: ">> \o r.message]
            /\ pc' = [pc EXCEPT ![t] = "except"]
            /\ UNCHANGED <<task_storage, calls>>
    /\ UNCHANGED <<slice_files, disk>>
    /\ WorkerFrame

\* lines 63-65: split_audio returns
SplitReturn(t, r) ==
    /\ pc[t] = "split_audio"
    /\ returns' = [returns EXCEPT ![t] = Append(@, r)]
    /\ IF r.success
       THEN /\ disk' = [disk EXCEPT ![t].slices = SlicesWritten(r.files)]
            /\ pc' = [pc EXCEPT ![t] = "listdir"]
            /\ UNCHANGED error_message
       ELSE /\ error_message' = [error_message EXCEPT ![t] =
                                    <<"audio split failed: ">> \o r.message]
            /\ pc' = [pc EXCEPT ![t] = "except"]
            /\ UNCHANGED disk
    /\ UNCHANGED <<task_storage, slice_files, calls>>
    /\ WorkerFrame

\* lines 68-92: the listing is taken and sorted, then status COMPLETED 100 with the
\* result_url; an exception of os.listdir goes to the except branch
Finalize(t, listing) ==
    /\ pc[t] = "listdir"
    /\ IF listing = "ok"
       THEN /\ slice_files' = [slice_files EXCEPT ![t] =
                                  sorted(listdir(disk[t].slices,
                                                 returns[t][Len(returns[t])].files))]
            /\ task_storage' = update_task_status(task_storage, t, COMPLETED, 100,
                                  <<"segmentation complete">>, segments_url(t))
            /\ calls' = [calls EXCEPT ![t] = Append(@, "finalize")]
            /\ pc' = [pc EXCEPT ![t] = "attach_segments"]
            /\ UNCHANGED error_message
       ELSE /\ error_message' = [error_message EXCEPT ![t] = <<"No such file or directory">>]
            /\ pc' = [pc EXCEPT ![t] = "except"]
            /\ UNCHANGED <<task_storage, slice_files, calls>>
    /\ UNCHANGED <<returns, disk>>
    /\ WorkerFrame

\* line 95: task_storage[task_id]["segments"] = segments
AttachSegments(t) ==
    /\ pc[t] = "attach_segments"
    /\ task_storage' = set_item(task_storage, t, "segments", Segments(t, slice_files[t]))
    /\ pc' = [pc EXCEPT ![t] = "attach_metadata"]
    /\ UNCHANGED <<error_message, slice_files, calls, returns, disk>>
    /\ WorkerFrame

\* a slip in lines 96-98: what follows the Completed write raises, and the
\* except branch runs
AttachMetadata_raises(t) ==
    /\ pc[t] = "attach_metadata"
    /\ error_message' = [error_message EXCEPT ![t] = <<"metadata">>]
    /\ pc' = [pc EXCEPT ![t] = "except"]
    /\ UNCHANGED <<task_storage, slice_files, calls, returns, disk>>
    /\ WorkerFrame

\* line 96: task_storage[task_id]["metadata"] = metadata, and the function returns
AttachMetadata(t) ==
    /\ pc[t] = "attach_metadata"
    /\ task_storage' = set_item(task_storage, t, "metadata",
                                Metadata(t, origin[t].bv_number, Len(slice_files[t])))
    /\ pc' = [pc EXCEPT ![t] = "done"]
    /\ UNCHANGED <<error_message, slice_files, calls, returns, disk>>
    /\ WorkerFrame

\* a slip in lines 108-111: no try/except around the cleanup, so a failing
\* cleanup leaves process_video_task before line 114
Cleanup_raises(t, rmtree_ok) ==
    /\ pc[t] = "except"
    /\ disk[t].dir \/ rmtree_ok
    /\ calls' = [calls EXCEPT ![t] = Append(@, "cleanup_temp_files")]
    /\ disk' = [disk EXCEPT ![t] = cleanup_temp_files(@, rmtree_ok)]
    /\ pc' = [pc EXCEPT ![t] = IF rmtree_ok THEN "write_failed" ELSE "done"]
    /\ UNCHANGED <<task_storage, error_message, slice_files, returns>>
    /\ WorkerFrame

\* lines 108-111: cleanup_temp_files(task_id), whatever it does is swallowed
Cleanup(t, rmtree_ok) ==
    /\ pc[t] = "except"
    /\ disk[t].dir \/ rmtree_ok
    /\ calls' = [calls EXCEPT ![t] = Append(@, "cleanup_temp_files")]
    /\ disk' = [disk EXCEPT ![t] = cleanup_temp_files(@, rmtree_ok)]
    /\ pc' = [pc EXCEPT ![t] = "write_failed"]
    /\ UNCHANGED <<task_storage, error_message, slice_files, returns>>
    /\ WorkerFrame

\* a slip after line 114: a failed run is put back in the queue
WriteFailed_retries(t) ==
    /\ pc[t] = "write_failed"
    /\ task_storage' = update_task_status(task_storage, t, FAILED, 0,
                                          FailedMessage(error_message[t]), NoUrl)
    /\ pc' = [pc EXCEPT ![t] = "queued"]
    /\ UNCHANGED <<error_message, slice_files, calls, returns, disk>>
    /\ WorkerFrame

\* line 114: status FAILED 0, and the function returns
WriteFailed(t) ==
    /\ pc[t] = "write_failed"
    /\ task_storage' = update_task_status(task_storage, t, FAILED, 0,
                                          FailedMessage(error_message[t]), NoUrl)
    /\ pc' = [pc EXCEPT ![t] = "done"]
    /\ UNCHANGED <<error_message, slice_files, calls, returns, disk>>
    /\ WorkerFrame

\* one step of the worker thread running process_video_task(t)
process_video_task(t) ==
    \/ Begin(t)
    \/ \E r \in DownloadResults : DownloadReturn(t, r)
    \/ \E r \in ExtractResults : ExtractReturn(t, r)
    \/ \E r \in SplitResults : SplitReturn(t, r)
    \/ \E listing \in ListdirResults : Finalize(t, listing)
    \/ AttachSegments(t)
    \/ AttachMetadata(t)
    \/ \E rmtree_ok \in BOOLEAN : Cleanup(t, rmtree_ok)
    \/ WriteFailed(t)

\* ------------------------------------------------------- REST, app/tasks.py
\* TaskStatusResponse(**record): the ten declared fields, extra keys dropped
TaskStatusResponse(rec) ==
    [task_id |-> rec.task_id, status |-> rec.status, progress |-> rec.progress,
     message |-> rec.message, created_at |-> rec.created_at,
     updated_at |-> rec.updated_at, eta |-> rec.eta,
     processed_slices |-> rec.processed_slices, total_slices |-> rec.total_slices,
     result_url |-> rec.result_url]

HTTPException(status_code, detail) == [status_code |-> status_code, detail |-> detail]

\* GET /tasks/{task_id}
get_task_status(store, task_id) ==
    IF task_id \notin DOMAIN store
    THEN HTTPException(404, "task not found")
    ELSE [status_code |-> 200, body |-> TaskStatusResponse(store[task_id])]

\* GET /tasks/{task_id}/segments
get_audio_segments(store, task_id) ==
    IF task_id \notin DOMAIN store
    THEN HTTPException(404, "task not found")
    ELSE IF store[task_id].status # COMPLETED
    THEN HTTPException(400, "task not completed")
    ELSE IF ~HasKey(store[task_id], "segments") \/ ~HasKey(store[task_id], "metadata")
    THEN HTTPException(404, "segment information not found")
    ELSE [status_code |-> 200,
          body |-> [segments |-> store[task_id].segments,
                    metadata |-> store[task_id].metadata]]

\* a slip in line 192: only the upper end of the index is tested, so a negative
\* index counts from the end of the list as Python's list indexing does
download_audio_segment_negative_index(store, task_id, segment_index) ==
    IF task_id \notin DOMAIN store
    THEN HTTPException(404, "task not found")
    ELSE IF store[task_id].status # COMPLETED
    THEN HTTPException(400, "task not completed")
    ELSE IF ~HasKey(store[task_id], "segments")
    THEN HTTPException(404, "segment information not found")
    ELSE IF segment_index >= Len(store[task_id].segments)
    THEN HTTPException(400, "segment index out of range")
    ELSE LET n == Len(store[task_id].segments)
             at == IF segment_index < 0 THEN n + segment_index + 1 ELSE segment_index + 1
         IN IF at < 1
            THEN HTTPException(500, "list index out of range")
            ELSE IF ~path_exists(store[task_id].segments[at])
            THEN HTTPException(404, "segment file not found")
            ELSE [status_code |-> 200,
                  file |-> store[task_id].segments[at],
                  filename |-> store[task_id].segments[at].name]

\* GET /tasks/{task_id}/download/{segment_index}
download_audio_segment(store, task_id, segment_index) ==
    IF task_id \notin DOMAIN store
    THEN HTTPException(404, "task not found")
    ELSE IF store[task_id].status # COMPLETED
    THEN HTTPException(400, "task not completed")
    ELSE IF ~HasKey(store[task_id], "segments")
    THEN HTTPException(404, "segment information not found")
    ELSE IF segment_index < 0 \/ segment_index >= Len(store[task_id].segments)
    THEN HTTPException(400, "segment index out of range")
    ELSE IF ~path_exists(store[task_id].segments[segment_index + 1])
    THEN HTTPException(404, "segment file not found")
    ELSE [status_code |-> 200,
          file |-> store[task_id].segments[segment_index + 1],
          filename |-> store[task_id].segments[segment_index + 1].name]

\* ------------------------------------------- MCP JSON-RPC, app/mcp_sse.py
TextContent(text) == [type |-> "text", text |-> text]

\* the status text of get_task_status, common to both MCP transports
StatusText(task) ==
    [msg |-> "status", status |-> task.status, progress |-> task.progress,
     message |-> task.message, created_at |-> task.created_at,
     updated_at |-> task.updated_at,
     completed_note |-> (task.status = COMPLETED),
     failed_note |-> (task.status = FAILED)]

\* task.get("segments", [])
GetSegments(task) == IF HasKey(task, "segments") THEN task.segments ELSE <<>>

\* the segments text of get_audio_segments, common to both MCP transports:
\* metadata.get('segment_count', len(segments)), metadata.get('total_duration', 0),
\* metadata.get('bv_number', 'N/A'), then the enumerated list
SegmentsText(task) ==
    [msg |-> "segments",
     segment_count |-> IF HasKey(task, "metadata") THEN task.metadata.segment_count
                       ELSE Len(GetSegments(task)),
     total_duration |-> IF HasKey(task, "metadata") THEN task.metadata.total_duration
                        ELSE 0,
     bv_number |-> IF HasKey(task, "metadata") THEN task.metadata.bv_number ELSE "N/A",
     segments |-> GetSegments(task)]

\* call_tool("get_task_status", {"task_id": task_id})
sse_get_task_status(store, task_id) ==
    IF task_id \notin DOMAIN store
    THEN TextContent([msg |-> "task not found", task_id |-> task_id])
    ELSE TextContent(StatusText(store[task_id]))

\* call_tool("get_audio_segments", {"task_id": task_id})
sse_get_audio_segments(store, task_id) ==
    IF task_id \notin DOMAIN store
    THEN TextContent([msg |-> "task not found", task_id |-> task_id])
    ELSE IF store[task_id].status # COMPLETED
    THEN TextContent([msg |-> "task not completed", status |-> store[task_id].status])
    ELSE TextContent(SegmentsText(store[task_id]))

\* a slip in lines 198-202: PENDING listed among the statuses that cannot be cancelled
sse_cancel_task_rejects_pending(store, task_id) ==
    IF task_id \notin DOMAIN store
    THEN [accept |-> FALSE,
          content |-> TextContent([msg |-> "task not found", task_id |-> task_id])]
    ELSE IF store[task_id].status \in {PENDING, COMPLETED, FAILED, CANCELLED}
    THEN [accept |-> FALSE,
          content |-> TextContent([msg |-> "task in final state, cannot cancel",
                                   status |-> store[task_id].status])]
    ELSE [accept |-> TRUE,
          content |-> TextContent([msg |-> "task cancelled", task_id |-> task_id])]

\* call_tool("cancel_task", {"task_id": task_id}) up to its update_task_status call:
\* the text it returns at once, or "accept" when it goes on to write
sse_cancel_task(store, task_id) ==
    IF task_id \notin DOMAIN store
    THEN [accept |-> FALSE,
          content |-> TextContent([msg |-> "task not found", task_id |-> task_id])]
    ELSE IF store[task_id].status \in {COMPLETED, FAILED, CANCELLED}
    THEN [accept |-> FALSE,
          content |-> TextContent([msg |-> "task in final state, cannot cancel",
                                   status |-> store[task_id].status])]
    ELSE [accept |-> TRUE,
          content |-> TextContent([msg |-> "task cancelled", task_id |-> task_id])]

\* JSON values as request.json() hands them over, tagged with their Python type
JNull == [t |-> "NoneType"]
JEmpty == [t |-> "str", empty |-> TRUE]
JStr(text) == [t |-> "str", v |-> text]
\* the text of a task id
JId(task_id) == [t |-> "str", uuid |-> task_id]
JNum(n) == [t |-> "int", n |-> n]
\* a list with something in it
JList == [t |-> "list"]
JDict(items) == [t |-> "dict", items |-> items]
EmptyDict == JDict(<<>>)

\* bool(value)
truthy(value) ==
    CASE value.t = "NoneType" -> FALSE
      [] value.t = "str" -> "empty" \notin DOMAIN value
      [] value.t = "int" -> value.n # 0
      [] value.t = "dict" -> DOMAIN value.items # {}
      [] OTHER -> TRUE

\* d.get(key, default) of a dict
dict_get(d, key, default) == IF key \in DOMAIN d.items THEN d.items[key] ELSE default

\* the key a task_id argument is in task_storage: 0, which no task has, for any
\* value that is not the text of an id
KeyOf(value) == IF "uuid" \in DOMAIN value THEN value.uuid ELSE 0

\* what a call of call_tool does: it raises, or returns a content and has (or
\* has not) written the store
Raised(exc) == [raises |-> TRUE, exc |-> exc]
NoEffect == [kind |-> "none"]
Returned(content, effect) == [raises |-> FALSE, content |-> content, effect |-> effect]

\* list_tools(): the names of the tools, in the order listed
ToolNames ==
    <<"create_audio_segmentation_task", "get_task_status", "get_audio_segments",
      "cancel_task">>

\* mcp_sse call_tool(name, arguments); the write of an accepted cancel and the
\* record and scheduling of a create are the effect
sse_call_tool(store, name, arguments) ==
    LET args == IF truthy(arguments) THEN arguments ELSE EmptyDict
        task_id == IF args.t = "dict" THEN dict_get(args, "task_id", JNull) ELSE JNull
        bv_number == IF args.t = "dict" THEN dict_get(args, "bv_number", JNull) ELSE JNull
        WithTask(answer) ==
            IF args.t # "dict" THEN Raised("AttributeError")
            ELSE IF ~truthy(task_id)
            THEN Returned(TextContent([msg |-> "missing task_id"]), NoEffect)
            ELSE IF task_id.t \in {"list", "dict"} THEN Raised("TypeError")
            ELSE answer
    IN IF name = JStr("create_audio_segmentation_task")
       THEN IF args.t # "dict" THEN Raised("AttributeError")
            ELSE IF ~truthy(bv_number)
            THEN Returned(TextContent([msg |-> "missing bv_number"]), NoEffect)
            ELSE Returned(TextContent([msg |-> "task created", task_id |-> uuid4,
                                       bv_number |-> bv_number]),
                          [kind |-> "create", bv_number |-> bv_number.v])
       ELSE IF name = JStr("get_task_status")
       THEN WithTask(Returned(sse_get_task_status(store, KeyOf(task_id)), NoEffect))
       ELSE IF name = JStr("get_audio_segments")
       THEN WithTask(Returned(sse_get_audio_segments(store, KeyOf(task_id)), NoEffect))
       ELSE IF name = JStr("cancel_task")
       THEN WithTask(LET c == sse_cancel_task(store, KeyOf(task_id))
                     IN Returned(c.content,
                                 IF c.accept
                                 THEN [kind |-> "cancel", task_id |-> KeyOf(task_id)]
                                 ELSE NoEffect))
       ELSE Returned(TextContent([msg |-> "unknown tool", name |-> name]), NoEffect)

\* the uri of a task's resource, a uri of another scheme, a text that is no URL
TaskUri(task_id) == [t |-> "str", scheme |-> "bili2text://tasks/", uuid |-> task_id]
OtherUri == [t |-> "str", scheme |-> "other://"]
NotAUrl == JStr("no url")

\* mcp_sse list_resources(): one resource for every Completed record
sse_list_resources(store) ==
    {[uri |-> TaskUri(t),
      bv_number |-> IF HasKey(store[t], "metadata") THEN store[t].metadata.bv_number
                    ELSE "N/A"] : t \in {u \in DOMAIN store : store[u].status = COMPLETED}}

\* task.get("metadata", {})
GetMetadata(task) == IF HasKey(task, "metadata") THEN task.metadata ELSE <<>>

\* mcp_sse read_resource(uri): the text it returns
sse_read_resource(store, uri) ==
    IF "scheme" \in DOMAIN uri /\ uri.scheme = "bili2text://tasks/"
    THEN IF uri.uuid \notin DOMAIN store
         THEN [error |-> "task not found", task_id |-> uri.uuid]
         ELSE [task_id |-> uri.uuid, status |-> store[uri.uuid].status,
               progress |-> store[uri.uuid].progress, message |-> store[uri.uuid].message,
               created_at |-> store[uri.uuid].created_at,
               updated_at |-> store[uri.uuid].updated_at,
               segments |-> GetSegments(store[uri.uuid]),
               metadata |-> GetMetadata(store[uri.uuid])]
    ELSE [error |-> "unsupported resource uri", uri |-> uri]

\* the JSON-RPC responses of handle_messages
JsonRpcResult(request_id, result) ==
    [jsonrpc |-> "2.0", id |-> request_id, result |-> result]
JsonRpcError(request_id, code, message) ==
    [jsonrpc |-> "2.0", id |-> request_id, error |-> [code |-> code, message |-> message]]

\* the answer of the server when an exception leaves handle_messages
InternalServerError == [status_code |-> 500]

\* what a request to POST /messages brings: request.json() returns a value, or
\* raises JSONDecodeError, or raises something else (UnicodeDecodeError for a
\* body that is not UTF-8)
Parsed(value) == [json |-> "value", value |-> value]
NotJson == [json |-> "JSONDecodeError"]
NotUtf8 == [json |-> "UnicodeDecodeError"]

Answer(response, effect) == [response |-> response, effect |-> effect]

\* a slip in lines 459-470: an unknown method is answered as tools/list is
handle_messages_lists_on_unknown(store, req) ==
    IF req.json = "JSONDecodeError"
    THEN Answer(JsonRpcError(JNull, -32700, "Parse error"), NoEffect)
    ELSE IF req.json # "value" THEN Answer(InternalServerError, NoEffect)
    ELSE IF req.value.t # "dict" \/ "jsonrpc" \notin DOMAIN req.value.items
    THEN Answer(JsonRpcError(JNull, -32600, "Invalid Request"), NoEffect)
    ELSE Answer(JsonRpcResult(dict_get(req.value, "id", JNull), [tools |-> ToolNames]),
                NoEffect)

\* POST /messages: the response, and the effect of the tool it called
handle_messages(store, req) ==
    IF req.json = "JSONDecodeError"
    THEN Answer(JsonRpcError(JNull, -32700, "Parse error"), NoEffect)
    ELSE IF req.json # "value"
    THEN \* "except Exception" reads body, which was never bound: UnboundLocalError
         \* leaves the handler
         Answer(InternalServerError, NoEffect)
    ELSE
    LET body == req.value IN
    IF body.t # "dict"
    THEN Answer(JsonRpcError(JNull, -32600, "Invalid Request"), NoEffect)
    ELSE IF "jsonrpc" \notin DOMAIN body.items
    THEN Answer(JsonRpcError(dict_get(body, "id", JNull), -32600, "Invalid Request"),
                NoEffect)
    ELSE
    LET method == dict_get(body, "method", JNull)
        params == dict_get(body, "params", EmptyDict)
        request_id == dict_get(body, "id", JNull)
        InternalError == Answer(JsonRpcError(request_id, -32603, "Internal error"), NoEffect)
    IN IF method = JStr("tools/list")
       THEN Answer(JsonRpcResult(request_id, [tools |-> ToolNames]), NoEffect)
       ELSE IF method = JStr("tools/call")
       THEN IF params.t # "dict" THEN InternalError
            ELSE LET tool_name == dict_get(params, "name", JNull)
                     arguments == dict_get(params, "arguments", EmptyDict)
                 IN IF ~truthy(tool_name)
                    THEN Answer(JsonRpcError(request_id, -32602,
                                             "Invalid params: missing tool name"), NoEffect)
                    ELSE LET r == sse_call_tool(store, tool_name, arguments)
                         IN IF r.raises THEN InternalError
                            ELSE Answer(JsonRpcResult(request_id,
                                                      [content |-> <<r.content>>]),
                                        r.effect)
       ELSE IF method = JStr("resources/list")
       THEN \* resource.model_dump() keeps uri as an AnyUrl object, for which
            \* json.dumps has no encoder: TypeError as soon as one resource is listed
            IF sse_list_resources(store) # {} THEN InternalError
            ELSE Answer(JsonRpcResult(request_id, [resources |-> {}]), NoEffect)
       ELSE IF method = JStr("resources/read")
       THEN IF params.t # "dict" THEN InternalError
            ELSE LET uri == dict_get(params, "uri", JNull)
                 IN IF ~truthy(uri)
                    THEN Answer(JsonRpcError(request_id, -32602,
                                             "Invalid params: missing uri"), NoEffect)
                    ELSE IF uri.t # "str" \/ uri = NotAUrl
                    THEN InternalError
                    ELSE Answer(JsonRpcResult(request_id,
                                    [contents |-> <<TextContent(sse_read_resource(store, uri))>>]),
                                NoEffect)
       ELSE Answer(JsonRpcError(request_id, -32601, <<"Method not found: ", method>>),
                   NoEffect)

\* ---------------------------------------- MCP direct, app/mcp_routes.py
MCPToolCallResponse(text, isError) ==
    [content |-> <<TextContent(text)>>, isError |-> isError]

\* call_tool(name="get_task_status")
mcp_get_task_status(store, task_id) ==
    IF task_id \notin DOMAIN store
    THEN MCPToolCallResponse([msg |-> "task not found", task_id |-> task_id], TRUE)
    ELSE MCPToolCallResponse(StatusText(store[task_id]), FALSE)

\* a slip in lines 211-215: the status of the record is not looked at
mcp_get_audio_segments_serves_any(store, task_id) ==
    IF task_id \notin DOMAIN store
    THEN MCPToolCallResponse([msg |-> "task not found", task_id |-> task_id], TRUE)
    ELSE MCPToolCallResponse(SegmentsText(store[task_id]), FALSE)

\* call_tool(name="get_audio_segments")
mcp_get_audio_segments(store, task_id) ==
    IF task_id \notin DOMAIN store
    THEN MCPToolCallResponse([msg |-> "task not found", task_id |-> task_id], TRUE)
    ELSE IF store[task_id].status # COMPLETED
    THEN MCPToolCallResponse([msg |-> "task not completed",
                              status |-> store[task_id].status], TRUE)
    ELSE MCPToolCallResponse(SegmentsText(store[task_id]), FALSE)

\* a slip in line 248: CANCELLED missing from the statuses that cannot be cancelled
mcp_cancel_task_accepts_cancelled(store, task_id) ==
    IF task_id \notin DOMAIN store
    THEN [accept |-> FALSE,
          response |-> MCPToolCallResponse([msg |-> "task not found",
                                            task_id |-> task_id], TRUE)]
    ELSE IF store[task_id].status \in {COMPLETED, FAILED}
    THEN [accept |-> FALSE,
          response |-> MCPToolCallResponse([msg |-> "task in final state, cannot cancel",
                                            status |-> store[task_id].status], TRUE)]
    ELSE [accept |-> TRUE,
          response |-> MCPToolCallResponse([msg |-> "task cancelled",
                                            task_id |-> task_id], FALSE)]

\* call_tool(name="cancel_task") up to its update_task_status call
mcp_cancel_task(store, task_id) ==
    IF task_id \notin DOMAIN store
    THEN [accept |-> FALSE,
          response |-> MCPToolCallResponse([msg |-> "task not found",
                                            task_id |-> task_id], TRUE)]
    ELSE IF store[task_id].status \in {COMPLETED, FAILED, CANCELLED}
    THEN [accept |-> FALSE,
          response |-> MCPToolCallResponse([msg |-> "task in final state, cannot cancel",
                                            status |-> store[task_id].status], TRUE)]
    ELSE [accept |-> TRUE,
          response |-> MCPToolCallResponse([msg |-> "task cancelled",
                                            task_id |-> task_id], FALSE)]

\* mcp_routes call_tool(request): the response, and the effect of the tool. An
\* exception (an unhashable task_id) leaves the handler
mcp_call_tool(store, request) ==
    LET task_id == dict_get(request.arguments, "task_id", JNull)
        bv_number == dict_get(request.arguments, "bv_number", JNull)
        WithTask(answer) ==
            IF ~truthy(task_id)
            THEN Answer(MCPToolCallResponse([msg |-> "missing task_id"], TRUE), NoEffect)
            ELSE IF task_id.t \in {"list", "dict"}
            THEN Answer(InternalServerError, NoEffect)
            ELSE answer
    IN IF request.name = "create_audio_segmentation_task"
       THEN IF ~truthy(bv_number)
            THEN Answer(MCPToolCallResponse([msg |-> "missing bv_number"], TRUE), NoEffect)
            ELSE Answer(MCPToolCallResponse([msg |-> "task created", task_id |-> uuid4,
                                             bv_number |-> bv_number], FALSE),
                        [kind |-> "create", bv_number |-> bv_number.v])
       ELSE IF request.name = "get_task_status"
       THEN WithTask(Answer(mcp_get_task_status(store, KeyOf(task_id)), NoEffect))
       ELSE IF request.name = "get_audio_segments"
       THEN WithTask(Answer(mcp_get_audio_segments(store, KeyOf(task_id)), NoEffect))
       ELSE IF request.name = "cancel_task"
       THEN WithTask(LET c == mcp_cancel_task(store, KeyOf(task_id))
                     IN Answer(c.response,
                               IF c.accept
                               THEN [kind |-> "cancel", task_id |-> KeyOf(task_id)]
                               ELSE NoEffect))
       ELSE Answer(MCPToolCallResponse([msg |-> "unknown tool", name |-> request.name],
                                       TRUE), NoEffect)

\* mcp_routes list_resources()
mcp_list_resources(store) ==
    {[uri |-> TaskUri(t),
      bv_number |-> IF HasKey(store[t], "metadata") THEN store[t].metadata.bv_number
                    ELSE "N/A"] : t \in {u \in DOMAIN store : store[u].status = COMPLETED}}

\* a slip in lines 105-118: the catalog of GET /tools without cancel_task
mcp_list_tools_without_cancel ==
    [tools |-> <<[name |-> "create_audio_segmentation_task", required |-> <<"bv_number">>],
                 [name |-> "get_task_status", required |-> <<"task_id">>],
                 [name |-> "get_audio_segments", required |-> <<"task_id">>]>>]

\* mcp_routes list_tools(): GET /tools
mcp_list_tools ==
    [tools |-> <<[name |-> "create_audio_segmentation_task", required |-> <<"bv_number">>],
                 [name |-> "get_task_status", required |-> <<"task_id">>],
                 [name |-> "get_audio_segments", required |-> <<"task_id">>],
                 [name |-> "cancel_task", required |-> <<"task_id">>]>>]

\* mcp_routes read_resource(request)
mcp_read_resource(store, uri) ==
    IF "scheme" \in DOMAIN uri /\ uri.scheme = "bili2text://tasks/"
    THEN IF uri.uuid \notin DOMAIN store
         THEN [contents |-> <<TextContent([error |-> "task not found",
                                           task_id |-> uri.uuid])>>,
               isError |-> TRUE]
         ELSE [contents |-> <<TextContent(
                   [task_id |-> uri.uuid, status |-> store[uri.uuid].status,
                    progress |-> store[uri.uuid].progress,
                    message |-> store[uri.uuid].message,
                    created_at |-> store[uri.uuid].created_at,
                    updated_at |-> store[uri.uuid].updated_at,
                    segments |-> GetSegments(store[uri.uuid]),
                    metadata |-> GetMetadata(store[uri.uuid])])>>,
               isError |-> FALSE]
    ELSE [contents |-> <<TextContent([error |-> "unsupported resource uri", uri |-> uri])>>,
          isError |-> TRUE]

\* ------------------------------------------------------------ the requests
\* the steps of the event loop leave the worker threads and the disk alone
LoopFrame ==
    UNCHANGED <<error_message, slice_files, calls, returns, disk, removed, now, sessions,
                streams>>

\* the TaskResponse of POST /tasks
TaskResponse(task_id) ==
    [status_code |-> 200,
     body |-> [task_id |-> task_id, status |-> PENDING,
               message |-> <<"task created, queued">>, created_at |-> now]]

\* a slip in lines 129-136: the task is handed to BackgroundTasks without the
\* Pending record being written
create_task_no_record(bv_number) ==
    /\ handler = Idle
    /\ pc' = [pc EXCEPT ![uuid4] = "queued"]
    /\ origin' = Append(origin, [surface |-> "rest", bv_number |-> bv_number])
    /\ UNCHANGED <<task_storage, mcp_task_storage, handler>>
    /\ LoopFrame

\* POST /tasks: the Pending record, then process_video_task is handed to
\* BackgroundTasks
create_task(bv_number) ==
    /\ handler = Idle
    /\ task_storage' = update_task_status(task_storage, uuid4, PENDING, 0,
                                          <<"task created, queued">>, NoUrl)
    /\ pc' = [pc EXCEPT ![uuid4] = "queued"]
    /\ origin' = Append(origin, [surface |-> "rest", bv_number |-> bv_number])
    /\ UNCHANGED <<mcp_task_storage, handler>>
    /\ LoopFrame

\* mcp_sse call_tool("create_audio_segmentation_task"): the Pending record, then
\* asyncio.to_thread(process_video_task, ...)
sse_create_task(bv_number) ==
    /\ handler = Idle
    /\ task_storage' = update_task_status(task_storage, uuid4, PENDING, 0,
                                          <<"task created">>, NoUrl)
    /\ pc' = [pc EXCEPT ![uuid4] = "queued"]
    /\ origin' = Append(origin, [surface |-> "sse", bv_number |-> bv_number])
    /\ UNCHANGED <<mcp_task_storage, handler>>
    /\ LoopFrame

\* a slip in lines 139-140: the direct tool starts process_video_task as the
\* other two surfaces do
mcp_create_task_schedules(bv_number) ==
    /\ handler = Idle
    /\ mcp_task_storage' = mcp_update_task_status(mcp_task_storage, uuid4, PENDING, 0,
                                                  <<"task created">>, NoUrl)
    /\ pc' = [pc EXCEPT ![uuid4] = "queued"]
    /\ origin' = Append(origin, [surface |-> "direct", bv_number |-> bv_number])
    /\ UNCHANGED <<task_storage, handler>>
    /\ LoopFrame

\* mcp_routes call_tool(name="create_audio_segmentation_task"): the Pending record
\* in mcp_routes.task_storage, and nothing is scheduled
mcp_create_task(bv_number) ==
    /\ handler = Idle
    /\ mcp_task_storage' = mcp_update_task_status(mcp_task_storage, uuid4, PENDING, 0,
                                                  <<"task created">>, NoUrl)
    /\ origin' = Append(origin, [surface |-> "direct", bv_number |-> bv_number])
    /\ UNCHANGED <<task_storage, pc, handler>>
    /\ LoopFrame

\* mcp_sse cancel_task up to the status test: it answers at once, or goes on
\* to the write (a worker thread may run between the test and the write)
SseCancelTest(task_id) ==
    /\ handler = Idle
    /\ handler' = IF sse_cancel_task(task_storage, task_id).accept
                  THEN [op |-> "cancel_task", task_id |-> task_id]
                  ELSE Idle
    /\ UNCHANGED <<task_storage, mcp_task_storage, origin, pc>>
    /\ LoopFrame

\* a slip in line 210: the cancel keeps the progress of the record
SseCancelWrite_keeps_progress ==
    /\ handler.op = "cancel_task"
    /\ task_storage' = update_task_status(task_storage, handler.task_id, CANCELLED,
                                          task_storage[handler.task_id].progress,
                                          <<"task cancelled">>, NoUrl)
    /\ handler' = Idle
    /\ UNCHANGED <<mcp_task_storage, origin, pc>>
    /\ LoopFrame

\* mcp_sse line 210: update_task_status(task_id, CANCELLED, 0, "任务已取消")
SseCancelWrite ==
    /\ handler.op = "cancel_task"
    /\ task_storage' = update_task_status(task_storage, handler.task_id, CANCELLED, 0,
                                          <<"task cancelled">>, NoUrl)
    /\ handler' = Idle
    /\ UNCHANGED <<mcp_task_storage, origin, pc>>
    /\ LoopFrame

\* a slip in line 254: the accepted cancel is recorded as Failed
McpCancel_writes_failed(task_id) ==
    /\ handler = Idle
    /\ mcp_task_storage' =
           IF mcp_cancel_task(mcp_task_storage, task_id).accept
           THEN mcp_update_task_status(mcp_task_storage, task_id, FAILED, 0,
                                       <<"task cancelled">>, NoUrl)
           ELSE mcp_task_storage
    /\ UNCHANGED <<task_storage, origin, pc, handler>>
    /\ LoopFrame

\* mcp_routes cancel_task: no thread writes mcp_routes.task_storage, so the test
\* and the write are one step of the event loop
McpCancel(task_id) ==
    /\ handler = Idle
    /\ mcp_task_storage' =
           IF mcp_cancel_task(mcp_task_storage, task_id).accept
           THEN mcp_update_task_status(mcp_task_storage, task_id, CANCELLED, 0,
                                       <<"task cancelled">>, NoUrl)
           ELSE mcp_task_storage
    /\ UNCHANGED <<task_storage, origin, pc, handler>>
    /\ LoopFrame

\* POST /messages as a step of the program: the create tool writes and schedules,
\* the cancel tool goes on to its write when it accepts, nothing else writes
HandleMessages(req) ==
    /\ handler = Idle
    /\ LET effect == handle_messages(task_storage, req).effect
       IN IF effect.kind = "create" THEN sse_create_task(effect.bv_number)
          ELSE IF effect.kind = "cancel" THEN SseCancelTest(effect.task_id)
          ELSE UNCHANGED vars

\* POST /tools/call as a step of the program
McpCallTool(request) ==
    /\ handler = Idle
    /\ LET effect == mcp_call_tool(mcp_task_storage, request).effect
       IN IF effect.kind = "create" THEN mcp_create_task(effect.bv_number)
          ELSE IF effect.kind = "cancel" THEN McpCancel(effect.task_id)
          ELSE UNCHANGED vars

\* the handlers that only read: GET /tasks/{task_id}, its /segments and
\* /download/{segment_index}, GET /tools, GET /resources, POST /resources/read
\* a slip in lines 153-156: the lookup is task_storage.setdefault(task_id, ...), so
\* asking for an unknown id leaves a record behind
GetTaskStatus_setdefault ==
    /\ handler = Idle
    /\ task_storage' = IF 0 \in DOMAIN task_storage THEN task_storage
                       ELSE update_task_status(task_storage, 0, PENDING, 0, <<>>, NoUrl)
    /\ UNCHANGED <<mcp_task_storage, origin, pc, handler>>
    /\ LoopFrame

GetTaskStatus == handler = Idle /\ UNCHANGED vars
GetAudioSegments == handler = Idle /\ UNCHANGED vars
DownloadAudioSegment == handler = Idle /\ UNCHANGED vars
McpListTools == handler = Idle /\ UNCHANGED vars
McpListResources == handler = Idle /\ UNCHANGED vars
McpReadResource == handler = Idle /\ UNCHANGED vars

\* the environment deletes one segment file of a task whose run is over
ExternalFileRemoved(t, f) ==
    /\ removed < MaxRemovals
    /\ pc[t] = "done"
    /\ f \in disk[t].slices
    /\ disk' = [disk EXCEPT ![t].slices = @ \ {f}]
    /\ removed' = removed + 1
    /\ UNCHANGED <<task_storage, mcp_task_storage, origin, pc, error_message,
                   slice_files, calls, returns, handler, now, sessions, streams>>

\* ------------------------------------------------- GET /sse, app/mcp_sse.py
\* generate_session_id(): str(uuid.uuid4()), a value no stream has
generate_session_id == Len(streams) + 1

\* create_mcp_message(event_type, data)
create_mcp_message(event_type, data) == [event |-> event_type, data |-> data]

init_message == [jsonrpc |-> "2.0", id |-> "None", method |-> "initialize"]
init_response == [jsonrpc |-> "2.0", id |-> "None", result |-> "serverInfo"]
endpoint_data(session_id) == [endpoint |-> <<"/mcp/messages?session_id=", session_id>>]
ping_data(session_id) == [timestamp |-> now, session_id |-> session_id]
error_data == [error |-> [code |-> -32603, message |-> "Internal error"]]

SseFrame ==
    UNCHANGED <<task_storage, mcp_task_storage, origin, pc, error_message, slice_files,
                calls, returns, disk, removed, handler, now>>

\* "yield message" in stream i, the generator stopping at position next
Yield(i, message, next) ==
    streams' = [streams EXCEPT ![i].sent = Append(@, message), ![i].pc = next]

\* the number of ping events stream i has yielded
Pings(i) == Len(SelectSeq(streams[i].sent, LAMBDA m : m.event = "ping"))

\* GET /sse, lines 261-283: the generator starts, registers its session and
\* yields the initialize message
handle_sse ==
    /\ Len(streams) < MaxStreams
    /\ LET session_id == generate_session_id
       IN /\ sessions' = (session_id :> [created_at |-> now, last_activity |-> now])
                              @@ sessions
          /\ streams' = Append(streams,
                               [session_id |-> session_id, pc |-> "init_response",
                                sent |-> <<create_mcp_message("message", init_message)>>])
    /\ SseFrame

\* lines 285-296
YieldInitResponse(i) ==
    /\ streams[i].pc = "init_response"
    /\ Yield(i, create_mcp_message("message", init_response), "endpoint")
    /\ UNCHANGED sessions
    /\ SseFrame

\* lines 298-302
YieldEndpoint(i) ==
    /\ streams[i].pc = "endpoint"
    /\ Yield(i, create_mcp_message("endpoint", endpoint_data(streams[i].session_id)),
             "sleep")
    /\ UNCHANGED sessions
    /\ SseFrame

\* a slip in lines 308-312: the endpoint event is sent again in place of the ping
YieldPing_reannounces(i) ==
    /\ streams[i].pc = "sleep"
    /\ Pings(i) < MaxPings
    /\ Yield(i, create_mcp_message("endpoint", endpoint_data(streams[i].session_id)),
             "ping")
    /\ UNCHANGED sessions
    /\ SseFrame

\* lines 307-312: asyncio.sleep(15) returns and the ping is yielded
YieldPing(i) ==
    /\ streams[i].pc = "sleep"
    /\ Pings(i) < MaxPings
    /\ Yield(i, create_mcp_message("ping", ping_data(streams[i].session_id)), "ping")
    /\ UNCHANGED sessions
    /\ SseFrame

\* lines 315-316: the generator is resumed after a ping
TouchSession(i) ==
    /\ streams[i].pc = "ping"
    /\ sessions' = IF streams[i].session_id \in DOMAIN sessions
                   THEN [sessions EXCEPT ![streams[i].session_id].last_activity = now]
                   ELSE sessions
    /\ streams' = [streams EXCEPT ![i].pc = "sleep"]
    /\ SseFrame

\* a slip in lines 318-319: the session of a stream that ends is dropped
Disconnect_removes_session(i) ==
    /\ streams[i].pc # "closed"
    /\ streams' = [streams EXCEPT ![i].pc = "closed"]
    /\ sessions' = [id \in DOMAIN sessions \ {streams[i].session_id} |-> sessions[id]]
    /\ SseFrame

\* lines 318-319 and the close of the generator at a yield: the client is gone
Disconnect(i) ==
    /\ streams[i].pc # "closed"
    /\ streams' = [streams EXCEPT ![i].pc = "closed"]
    /\ UNCHANGED sessions
    /\ SseFrame

\* lines 320-329: an exception in the loop body
LoopRaises(i) ==
    /\ streams[i].pc = "sleep"
    /\ Yield(i, create_mcp_message("error", error_data), "closed")
    /\ UNCHANGED sessions
    /\ SseFrame

\* GET /health of mcp_sse, lines 538-547: len(sessions)
mcp_health == [status |-> "healthy", active_sessions |-> Cardinality(DOMAIN sessions)]

\* --------------------------------------------------------- specifications
Init ==
    /\ task_storage = <<>>
    /\ mcp_task_storage = <<>>
    /\ origin = <<>>
    /\ pc = [t \in TaskIds |-> "none"]
    /\ error_message = [t \in TaskIds |-> <<>>]
    /\ slice_files = [t \in TaskIds |-> <<>>]
    /\ calls = [t \in TaskIds |-> <<>>]
    /\ returns = [t \in TaskIds |-> <<>>]
    /\ disk = [t \in TaskIds |-> NoDisk]
    /\ removed = 0
    /\ handler = Idle
    /\ now = 0
    /\ sessions = <<>>
    /\ streams = <<>>

\* task ids requests carry: 0 is never a task's id
RequestIds == {0} \cup TaskIds

\* segment indexes download requests carry
SegmentIndexes == (-1)..MaxSegs

Worker == \E t \in TaskIds : process_video_task(t)

Creates ==
    /\ Len(origin) < MaxTasks
    /\ \E bv \in BvNumbers :
          \/ create_task(bv)
          \/ sse_create_task(bv)
          \/ mcp_create_task(bv)

Cancels ==
    \/ \E id \in RequestIds : SseCancelTest(id)
    \/ SseCancelWrite
    \/ \E id \in RequestIds : McpCancel(id)

Environment == \E t \in TaskIds : \E f \in disk[t].slices : ExternalFileRemoved(t, f)

Next == Worker \/ Creates \/ Cancels \/ Environment

Spec == Init /\ [][Next]_vars

\* the steps of fair runs: the requests and the worker
NextLive == Worker \/ Creates \/ Cancels

\* the worker threads get to run and every call into video_service returns:
\* a started or queued process_video_task keeps taking steps

SpecLive == Init /\ [][NextLive]_vars /\ \A t \in TaskIds : WF_vars(process_video_task(t))

\* runs of several tasks: every surface and every interleaving of the workers
\* and the cancel requests, with video_service held to one way of succeeding
\* and one way of failing (download_video)
ManyDownloadResults == {r \in DownloadResults : r.made_dir}
ManyExtractResults == {r \in ExtractResults : r.success}
ManySplitResults == {r \in SplitResults : r.success /\ r.files = 1}

WorkerMany ==
    \E t \in TaskIds :
        \/ Begin(t)
        \/ \E r \in ManyDownloadResults : DownloadReturn(t, r)
        \/ \E r \in ManyExtractResults : ExtractReturn(t, r)
        \/ \E r \in ManySplitResults : SplitReturn(t, r)
        \/ Finalize(t, "ok")
        \/ AttachSegments(t)
        \/ AttachMetadata(t)
        \/ Cleanup(t, TRUE)
        \/ WriteFailed(t)

CreatesMany ==
    /\ Len(origin) < MaxCreates
    /\ \E bv \in BvNumbers :
          \/ create_task(bv)
          \/ sse_create_task(bv)
          \/ mcp_create_task(bv)

NextMany == WorkerMany \/ CreatesMany \/ Cancels

SpecMany == Init /\ [][NextMany]_vars

\* ------------------------------------------------------ every request
\* the task ids requests name: 0 is never a task's id
NamedIds == 0..MaxTasks

\* the params of tools/call requests: no tool name; each tool without
\* arguments, with a text in place of the arguments object, with its argument
\* (a known or unknown task id), with an empty task id; a list as task id; a
\* tool that does not exist
ToolParams ==
    {[arguments |-> EmptyDict], [name |-> JStr("bogus")],
     [name |-> JStr("get_task_status"), arguments |-> JDict([task_id |-> JList])]}
    \cup {[name |-> JStr(ToolNames[i])] : i \in DOMAIN ToolNames}
    \cup {[name |-> JStr(ToolNames[i]), arguments |-> JStr("x")] : i \in DOMAIN ToolNames}
    \cup {[name |-> JStr(ToolNames[1]), arguments |-> JDict([bv_number |-> JStr(bv)])] :
             bv \in BvNumbers}
    \cup {[name |-> JStr(ToolNames[i]), arguments |-> JDict([task_id |-> JEmpty])] :
             i \in 2..4}
    \cup {[name |-> JStr(ToolNames[i]), arguments |-> JDict([task_id |-> JId(id)])] :
             i \in 2..4, id \in NamedIds}

\* the uri values of resources/read requests
Uris == {TaskUri(id) : id \in NamedIds} \cup {OtherUri, NotAUrl, JNum(7)}

Methods == {"tools/list", "tools/call", "resources/list", "resources/read"}

\* the requests to POST /messages
Requests ==
    {NotJson, NotUtf8, Parsed(JList), Parsed(JNull),
     Parsed(JDict([id |-> JNum(7), method |-> JStr("tools/list")])),
     Parsed(JDict([jsonrpc |-> JStr("2.0"), id |-> JNum(7)])),
     Parsed(JDict([jsonrpc |-> JStr("2.0"), method |-> JStr("foo/bar")]))}
    \cup {Parsed(JDict([jsonrpc |-> JStr("2.0"), id |-> JNum(7), method |-> JStr(m)])) :
             m \in Methods \cup {"foo/bar"}}
    \cup {Parsed(JDict([jsonrpc |-> JStr("2.0"), id |-> JNum(7), method |-> JStr(m),
                        params |-> JNull])) : m \in {"tools/call", "resources/read", "foo/bar"}}
    \cup {Parsed(JDict([jsonrpc |-> JStr("2.0"), id |-> JNum(7),
                        method |-> JStr("tools/call"), params |-> JDict(p)])) :
             p \in ToolParams}
    \cup {Parsed(JDict([jsonrpc |-> JStr("2.0"), id |-> JNum(7),
                        method |-> JStr("resources/read"),
                        params |-> JDict([uri |-> u])])) : u \in Uris}

\* the requests to POST /tools/call: a name and an arguments object
ToolCalls ==
    {[name |-> "bogus", arguments |-> EmptyDict],
     [name |-> "get_task_status", arguments |-> JDict([task_id |-> JList])]}
    \cup {[name |-> ToolNames[i], arguments |-> EmptyDict] : i \in DOMAIN ToolNames}
    \cup {[name |-> ToolNames[1], arguments |-> JDict([bv_number |-> JStr(bv)])] :
             bv \in BvNumbers}
    \cup {[name |-> ToolNames[i], arguments |-> JDict([task_id |-> JEmpty])] : i \in 2..4}
    \cup {[name |-> ToolNames[i], arguments |-> JDict([task_id |-> JId(id)])] :
             i \in 2..4, id \in NamedIds}

RestRequests ==
    \/ Len(origin) < MaxTasks /\ \E bv \in BvNumbers : create_task(bv)
    \/ GetTaskStatus
    \/ GetAudioSegments
    \/ DownloadAudioSegment

JsonRpcRequests ==
    \/ \E req \in Requests :
          /\ handle_messages(task_storage, req).effect.kind = "create"
                => Len(origin) < MaxTasks
          /\ HandleMessages(req)
    \/ SseCancelWrite

DirectRequests ==
    \/ \E request \in ToolCalls :
          /\ mcp_call_tool(mcp_task_storage, request).effect.kind = "create"
                => Len(origin) < MaxTasks
          /\ McpCallTool(request)
    \/ McpListTools
    \/ McpListResources
    \/ McpReadResource

\* the worker in the runs of SpecRpc: every stage may succeed or fail, a split
\* yields no or one slice
RpcSplitResults == {r \in SplitResults : r.files <= 1}

WorkerRpc ==
    \E t \in TaskIds :
        \/ Begin(t)
        \/ \E r \in ManyDownloadResults : DownloadReturn(t, r)
        \/ \E r \in ExtractResults : ExtractReturn(t, r)
        \/ \E r \in RpcSplitResults : SplitReturn(t, r)
        \/ Finalize(t, "ok")
        \/ AttachSegments(t)
        \/ AttachMetadata(t)
        \/ Cleanup(t, TRUE)
        \/ WriteFailed(t)

\* every request of every surface, well-formed or not, and the worker
NextRpc == RestRequests \/ JsonRpcRequests \/ DirectRequests \/ WorkerRpc

SpecRpc == Init /\ [][NextRpc]_vars

\* ------------------------------------------------------------ the clock
\* time passes between two calls of datetime.now()
Tick ==
    /\ now < MaxClock
    /\ now' = now + 1
    /\ UNCHANGED <<task_storage, mcp_task_storage, origin, pc, error_message,
                   slice_files, calls, returns, disk, removed, handler, sessions, streams>>

\* the runs in which the clock moves: the requests that write and the worker
NextTime == Tick \/ WorkerMany \/ Creates \/ Cancels

SpecTime == Init /\ [][NextTime]_vars

\* the event streams alone
NextSse ==
    \/ handle_sse
    \/ \E i \in 1..MaxStreams :
          /\ i <= Len(streams)
          /\ \/ YieldInitResponse(i)
             \/ YieldEndpoint(i)
             \/ YieldPing(i)
             \/ TouchSession(i)
             \/ Disconnect(i)
             \/ LoopRaises(i)

SpecSse == Init /\ [][NextSse]_vars

\* the run of one long recording: split_audio writes as many files as three
\* digits can number, or one more
LongCounts == {1000, 1001}

LongSplitResults ==
    {[success |-> TRUE, message |-> <<"audio split complete">>, files |-> k] :
        k \in LongCounts}

WorkerLong ==
    \E t \in TaskIds :
        \/ Begin(t)
        \/ \E r \in ManyDownloadResults : DownloadReturn(t, r)
        \/ \E r \in ExtractResults : ExtractReturn(t, r)
        \/ \E r \in LongSplitResults : SplitReturn(t, r)
        \/ Finalize(t, "ok")
        \/ AttachSegments(t)
        \/ AttachMetadata(t)
        \/ Cleanup(t, TRUE)
        \/ WriteFailed(t)

CreatesLong ==
    /\ origin = <<>>
    /\ \E bv \in BvNumbers :
          \/ create_task(bv)
          \/ sse_create_task(bv)

NextLong == WorkerLong \/ CreatesLong \/ Cancels

SpecLong == Init /\ [][NextLong]_vars

\* ------------------------------------------------------------------ claims
Tasks == DOMAIN task_storage
McpTasks == DOMAIN mcp_task_storage
NonFinal == {PENDING, DOWNLOADING, PROCESSING}

\* C1: once a record's status is Completed, Failed or Cancelled, no step of the
\* orchestrator and no cancel request changes the status of that record.
C1_TerminalSticky ==
    [][\A t \in Tasks :
          task_storage[t].status \in FinalStatuses
              => task_storage'[t].status = task_storage[t].status]_vars

\* C2: in every reachable state a record holds the keys 'segments' and 'metadata'
\* if and only if its status is Completed.
C2_SegmentsIffCompleted ==
    /\ \A t \in Tasks :
          (HasKey(task_storage[t], "segments") /\ HasKey(task_storage[t], "metadata"))
              <=> task_storage[t].status = COMPLETED
    /\ \A t \in McpTasks :
          (HasKey(mcp_task_storage[t], "segments") /\ HasKey(mcp_task_storage[t], "metadata"))
              <=> mcp_task_storage[t].status = COMPLETED

\* C3: on both MCP transports, cancel_task on an existing task whose status is
\* Pending, Downloading or Processing is accepted, and the record has status
\* Cancelled and progress 0 right after the call's write.
C3_CancelAccepted ==
    /\ [](\A id \in RequestIds :
            /\ (id \in Tasks /\ task_storage[id].status \in NonFinal)
                  => /\ sse_cancel_task(task_storage, id).accept
                     /\ sse_cancel_task(task_storage, id).content.text.msg = "task cancelled"
            /\ (id \in McpTasks /\ mcp_task_storage[id].status \in NonFinal)
                  => /\ mcp_cancel_task(mcp_task_storage, id).accept
                     /\ ~mcp_cancel_task(mcp_task_storage, id).response.isError)
    /\ [][SseCancelWrite
            => /\ task_storage'[handler.task_id].status = CANCELLED
               /\ task_storage'[handler.task_id].progress = 0]_vars
    /\ [][\A id \in RequestIds :
            (McpCancel(id) /\ id \in McpTasks /\ mcp_task_storage[id].status \in NonFinal)
                => /\ mcp_task_storage'[id].status = CANCELLED
                   /\ mcp_task_storage'[id].progress = 0]_vars

\* C3 witness: a cancel was accepted and written, the record is Cancelled with
\* progress 0.
C3_Witness ==
    /\ handler = Idle
    /\ \E t \in Tasks :
          task_storage[t].status = CANCELLED /\ task_storage[t].progress = 0

SameOnEverySurface(id) ==
    /\ get_task_status(task_storage, id).status_code = 200
    /\ sse_get_task_status(task_storage, id).text.msg = "status"
    /\ ~mcp_get_task_status(mcp_task_storage, id).isError
    /\ sse_get_task_status(task_storage, id).text.status
          = get_task_status(task_storage, id).body.status
    /\ mcp_get_task_status(mcp_task_storage, id).content[1].text.status
          = get_task_status(task_storage, id).body.status
    /\ get_audio_segments(task_storage, id).status_code # 404
    /\ sse_get_audio_segments(task_storage, id).text.msg # "task not found"
    /\ mcp_get_audio_segments(mcp_task_storage, id).content[1].text.msg # "task not found"
    /\ sse_cancel_task(task_storage, id).content.text.msg # "task not found"
    /\ mcp_cancel_task(mcp_task_storage, id).response.content[1].text.msg # "task not found"

\* C5: a task created through any surface is found by the status, segments and
\* cancel operations of every surface, and all of them report the same status.
C5_OneSharedStore == \A id \in 1..Len(origin) : SameOnEverySurface(id)

\* the segment list a finished split_audio of task t stands for
ProducedSegments(t) ==
    Segments(t, sorted(listdir(SlicesWritten(returns[t][3].files), returns[t][3].files)))

\* C6: a segments request for an existing task that is not Completed is refused
\* and carries no segment or metadata; for a Completed task it returns the whole
\* segment list and the metadata, never an empty or partial one.
C6_SegmentsOnlyWhenCompleted ==
    /\ \A id \in Tasks :
          LET rest == get_audio_segments(task_storage, id)
              sse == sse_get_audio_segments(task_storage, id).text
          IN IF task_storage[id].status # COMPLETED
             THEN /\ rest.status_code = 400
                  /\ ~HasKey(rest, "body")
                  /\ sse.msg = "task not completed"
                  /\ ~HasKey(sse, "segments")
             ELSE /\ rest.status_code = 200
                  /\ rest.body.segments = ProducedSegments(id)
                  /\ rest.body.metadata.segment_count = Len(ProducedSegments(id))
                  /\ sse.msg = "segments"
                  /\ sse.segments = ProducedSegments(id)
                  /\ sse.segment_count = Len(ProducedSegments(id))
    /\ \A id \in McpTasks :
          LET r == mcp_get_audio_segments(mcp_task_storage, id)
          IN IF mcp_task_storage[id].status # COMPLETED
             THEN r.isError /\ ~HasKey(r.content[1].text, "segments")
             ELSE ~r.isError

\* every file of the record's segment list is on disk
AllOnDisk(rec) == \A i \in 1..Len(rec.segments) : path_exists(rec.segments[i])

\* C7: for a Completed task with n segments whose files are on disk, download i
\* serves segments[i] for 0 <= i < n and fails, serving no file, for i < 0 and
\* i >= n; it also fails for an unknown task, a task that is not Completed, and a
\* segment whose file is gone.
C7_DownloadIndex ==
    \A id \in RequestIds, i \in SegmentIndexes :
        LET r == download_audio_segment(task_storage, id, i)
            Fails == r.status_code \in {400, 404} /\ ~HasKey(r, "file")
        IN /\ id \notin Tasks => Fails
           /\ (id \in Tasks /\ task_storage[id].status # COMPLETED) => Fails
           /\ (id \in Tasks /\ task_storage[id].status = COMPLETED
                  /\ HasKey(task_storage[id], "segments"))
                 => LET segs == task_storage[id].segments
                    IN /\ (i < 0 \/ i >= Len(segs)) => Fails
                       /\ (0 <= i /\ i < Len(segs) /\ ~path_exists(segs[i + 1])) => Fails
                       /\ (0 <= i /\ i < Len(segs) /\ AllOnDisk(task_storage[id]))
                             => /\ r.status_code = 200
                                /\ r.file = segs[i + 1]

\* C7 witness: a Completed task with two segments, the file of the first deleted:
\* index 1 is served, index 0 is refused for the missing file.
C7_Witness ==
    \E id \in Tasks :
        /\ task_storage[id].status = COMPLETED
        /\ HasKey(task_storage[id], "segments")
        /\ Len(task_storage[id].segments) >= 2
        /\ download_audio_segment(task_storage, id, 1).status_code = 200
        /\ download_audio_segment(task_storage, id, 0).status_code = 404
        /\ download_audio_segment(task_storage, id, -1).status_code = 400

\* the pipeline in the order of process_video_task
Stages == <<"download_video", "extract_audio", "split_audio", "finalize">>

\* the pipeline stages among the calls of task t
StageCalls(t) == SelectSeq(calls[t], LAMBDA c : c # "cleanup_temp_files")

CleanupCalls(t) == SelectSeq(calls[t], LAMBDA c : c = "cleanup_temp_files")

\* d is a part of the text msg
Contains(msg, d) ==
    \E i \in 0..(Len(msg) - Len(d)) : SubSeq(msg, i + 1, i + Len(d)) = d

\* C8: when download, extraction and split succeed and the split produced k
\* files, the orchestrator leaves the record Completed with progress 100, a
\* result_url that is the task's segments endpoint, k segments, and metadata
\* whose segment_count is k and which has no total_slices key.
C8_CompletedRecord ==
    [][\A t \in TaskIds :
          AttachMetadata(t)
              => LET rec == task_storage'[t]
                     k == returns[t][3].files
                 IN /\ rec.status = COMPLETED
                    /\ rec.progress = 100
                    /\ rec.result_url # NoUrl
                    /\ rec.result_url = segments_url(t)
                    /\ HasKey(rec, "segments")
                    /\ Len(rec.segments) = k
                    /\ HasKey(rec, "metadata")
                    /\ rec.metadata.segment_count = k
                    /\ "total_slices" \notin DOMAIN rec.metadata]_vars

\* the run of task t is in, or went through, the except branch
InExcept(t) ==
    \/ pc[t] \in {"except", "write_failed"}
    \/ pc[t] = "done" /\ CleanupCalls(t) # <<>>

\* what made the run of task t fail: the message of the stage that returned
\* failure, or the text of the exception os.listdir raised
FailureDetail(t) ==
    IF returns[t] # <<>> /\ ~returns[t][Len(returns[t])].success
    THEN returns[t][Len(returns[t])].message
    ELSE <<"No such file or directory">>

\* C9: when a stage reports failure or the listing raises, the orchestrator
\* invokes no later stage, invokes cleanup once, and then writes the record
\* Failed with progress 0, a message that contains the failure detail, and no
\* segments or metadata, whether or not cleanup removed the directory.
C9_FailedRecord ==
    /\ [](\A t \in TaskIds :
            InExcept(t)
                => /\ StageCalls(t) = SubSeq(Stages, 1, Len(returns[t]))
                   /\ Len(returns[t]) <= 3
                   /\ Len(CleanupCalls(t)) = IF pc[t] = "except" THEN 0 ELSE 1)
    /\ [][\A t \in TaskIds :
            WriteFailed(t)
                => LET rec == task_storage'[t]
                   IN /\ rec.status = FAILED
                      /\ rec.progress = 0
                      /\ Contains(rec.message, FailureDetail(t))
                      /\ ~HasKey(rec, "segments")
                      /\ ~HasKey(rec, "metadata")
                      /\ CleanupCalls(t) = <<"cleanup_temp_files">>
                      /\ pc'[t] = "done"]_vars

\* C9 witness: a run that failed in download_video, whose cleanup could not
\* remove the directory, has returned and left the record Failed.
C9_Witness ==
    \E t \in Tasks :
        /\ pc[t] = "done"
        /\ task_storage[t].status = FAILED
        /\ Contains(task_storage[t].message, <<"network timeout">>)
        /\ disk[t].dir
        /\ calls[t] = <<"download_video", "cleanup_temp_files">>

\* C10: within one task the stages are invoked in the order download, extract,
\* split, finalize, each at most once, and each one only after the one before
\* it returned success.
C10_StageOrder ==
    \A t \in TaskIds :
        /\ StageCalls(t) = SubSeq(Stages, 1, Len(StageCalls(t)))
        /\ \A i \in 2..Len(StageCalls(t)) :
              /\ Len(returns[t]) >= i - 1
              /\ returns[t][i - 1].success

\* C10 witness: a run went through all four stages.
C10_Witness == \E t \in TaskIds : StageCalls(t) = Stages /\ pc[t] = "done"

\* C11: a create through REST or through the JSON-RPC create tool schedules
\* process_video_task for the new id, and every scheduled run brings the record
\* to status Completed or Failed, provided the worker runs and the stages return.
C11_ScheduledRunsEnd ==
    /\ [][\A bv \in BvNumbers :
            (create_task(bv) \/ sse_create_task(bv))
                => /\ pc[uuid4] = "none"
                   /\ pc'[uuid4] = "queued"]_vars
    /\ \A t \in TaskIds :
          (pc[t] = "queued")
              ~> (t \in Tasks /\ task_storage[t].status \in {COMPLETED, FAILED})

\* C11 witness: a task created through the JSON-RPC tool was run to its end and
\* is Completed.
C11_Witness ==
    \E t \in Tasks :
        /\ origin[t].surface = "sse"
        /\ pc[t] = "done"
        /\ task_storage[t].status = COMPLETED

\* C12: a task created through the direct tool-call transport never has
\* process_video_task scheduled, and its status is Pending in every later state
\* until a cancel request for it is accepted.
C12_DirectNeverScheduled ==
    /\ [](\A t \in 1..Len(origin) :
            origin[t].surface = "direct"
                => /\ pc[t] = "none"
                   /\ calls[t] = <<>>
                   /\ t \in McpTasks
                   /\ mcp_task_storage[t].status \in {PENDING, CANCELLED})
    /\ [][\A t \in McpTasks :
            (mcp_task_storage[t].status = PENDING /\ mcp_task_storage'[t].status # PENDING)
                => /\ McpCancel(t)
                   /\ mcp_cancel_task(mcp_task_storage, t).accept
                   /\ mcp_task_storage'[t].status = CANCELLED]_vars

\* C12 witness: a task created through the direct transport sits Pending, with
\* no run of process_video_task.
C12_Witness ==
    \E t \in McpTasks :
        /\ origin[t].surface = "direct"
        /\ mcp_task_storage[t].status = PENDING
        /\ pc[t] = "none"

\* C13: POST /tasks writes the record of the new id with status Pending and
\* progress 0 in the step that schedules the run, so the record exists before
\* the first write of process_video_task, the first status a record ever shows
\* is Pending, and the response names the new id with status Pending.
C13_CreateWritesPending ==
    /\ [][\A bv \in BvNumbers :
            create_task(bv)
                => /\ uuid4 \notin Tasks
                   /\ uuid4 \in DOMAIN task_storage'
                   /\ task_storage'[uuid4].status = PENDING
                   /\ task_storage'[uuid4].progress = 0
                   /\ pc'[uuid4] = "queued"
                   /\ TaskResponse(uuid4).body.task_id = task_storage'[uuid4].task_id
                   /\ TaskResponse(uuid4).body.status = PENDING]_vars
    /\ [][\A t \in TaskIds :
            (t \notin Tasks /\ t \in DOMAIN task_storage')
                => task_storage'[t].status = PENDING]_vars
    /\ [](\A t \in TaskIds : pc[t] = "queued" => t \in Tasks)

\* C13 witness: a task created through REST, its run not yet started, shows
\* Pending.
C13_Witness ==
    \E t \in Tasks :
        /\ origin[t].surface = "rest"
        /\ pc[t] = "queued"
        /\ get_task_status(task_storage, t).body.status = PENDING

\* the records of both stores
AllRecords == Cardinality(Tasks) + Cardinality(McpTasks)

\* C14: every create call, on any surface and also with a bv_number used
\* before, takes an id that no record has, adds one record and leaves every
\* record that exists as it is; n create calls leave n records.
C14_CreateAddsOneRecord ==
    /\ [](AllRecords = Len(origin) /\ Tasks \cap McpTasks = {})
    /\ [][Len(origin') > Len(origin)
            => /\ uuid4 \notin Tasks \cup McpTasks
               /\ \A t \in Tasks : task_storage'[t] = task_storage[t]
               /\ \A t \in McpTasks : mcp_task_storage'[t] = mcp_task_storage[t]
               /\ uuid4 \in DOMAIN task_storage' \cup DOMAIN mcp_task_storage'
               /\ Len(origin') = Len(origin) + 1]_vars

\* C14 witness: two create calls with the same bv_number were served, the
\* second while the record of the first had moved on; both records exist.
C14_Witness ==
    /\ Len(origin) >= 2
    /\ origin[1].bv_number = origin[2].bv_number
    /\ 1 \in Tasks /\ 2 \in Tasks
    /\ pc[2] = "queued"
    /\ task_storage[1].status = COMPLETED

\* the number of times process_video_task(t) was entered
Invocations(t) == Len(SelectSeq(calls[t], LAMBDA c : c = "download_video"))

\* C15: over every sequence of create and cancel requests on all surfaces,
\* process_video_task is entered at most once for one task id: a run is queued
\* only by the create call that made the id, and never again.
C15_OneRunPerTask ==
    /\ [](\A t \in TaskIds : Invocations(t) <= 1)
    /\ [][\A t \in TaskIds :
            (pc[t] # "queued" /\ pc'[t] = "queued")
                => /\ pc[t] = "none"
                   /\ calls[t] = <<>>
                   /\ t = uuid4
                   /\ Len(origin') = Len(origin) + 1
                   /\ origin'[t].surface \in {"rest", "sse"}]_vars

\* C15 witness: two tasks, each with one finished run, one of them cancelled
\* on the way.
C15_Witness ==
    /\ \A t \in {1, 2} : pc[t] = "done" /\ Invocations(t) = 1
    /\ task_storage[1].status = CANCELLED

\* the request is a JSON object with a "jsonrpc" member
IsRpc(req) ==
    req.json = "value" /\ req.value.t = "dict" /\ "jsonrpc" \in DOMAIN req.value.items

MethodOf(req) == dict_get(req.value, "method", JNull)
ParamsOf(req) == dict_get(req.value, "params", EmptyDict)

\* the step writes a task store, schedules a run or starts a cancel
Writes ==
    \/ task_storage' # task_storage
    \/ mcp_task_storage' # mcp_task_storage
    \/ pc' # pc
    \/ handler' # handler

\* C16: a JSON-RPC request whose method is none of tools/list, tools/call,
\* resources/list, resources/read is answered with an error of code -32601 and
\* the id of the request, and it creates and changes no record: no step that
\* writes is the step of such a request.
C16_MethodNotFound ==
    /\ [](\A req \in Requests :
            (IsRpc(req) /\ MethodOf(req) \notin {JStr(m) : m \in Methods})
                => LET a == handle_messages(task_storage, req)
                   IN /\ "error" \in DOMAIN a.response
                      /\ "result" \notin DOMAIN a.response
                      /\ a.response.error.code = -32601
                      /\ a.response.id = dict_get(req.value, "id", JNull)
                      /\ a.effect = NoEffect)
    /\ [][Writes
            => \A req \in Requests :
                  (IsRpc(req) /\ MethodOf(req) \notin {JStr(m) : m \in Methods})
                      => ~HandleMessages(req)]_vars

\* C16 witness: with a task in the middle of its run, the request for method
\* foo/bar with id 7 is answered -32601 with id 7.
C16_Witness ==
    /\ \E t \in Tasks : task_storage[t].status = PROCESSING
    /\ LET r == handle_messages(task_storage,
                    Parsed(JDict([jsonrpc |-> JStr("2.0"), id |-> JNum(7),
                                  method |-> JStr("foo/bar")]))).response
       IN r.error.code = -32601 /\ r.id = JNum(7)

\* tools/call whose params object has no name
MissingName(req) ==
    /\ IsRpc(req)
    /\ MethodOf(req) = JStr("tools/call")
    /\ ParamsOf(req).t = "dict"
    /\ "name" \notin DOMAIN ParamsOf(req).items

\* resources/read whose params object has no uri
MissingUri(req) ==
    /\ IsRpc(req)
    /\ MethodOf(req) = JStr("resources/read")
    /\ ParamsOf(req).t = "dict"
    /\ "uri" \notin DOMAIN ParamsOf(req).items

\* an exception is raised while the request is handled: params is no object,
\* the tool raises, or the uri is no URL
RaisesInside(req) ==
    /\ IsRpc(req)
    /\ MethodOf(req) \in {JStr("tools/call"), JStr("resources/read")}
    /\ \/ ParamsOf(req).t # "dict"
       \/ /\ MethodOf(req) = JStr("tools/call")
          /\ ~MissingName(req)
          /\ sse_call_tool(task_storage, ParamsOf(req).items.name,
                           dict_get(ParamsOf(req), "arguments", EmptyDict)).raises
       \/ /\ MethodOf(req) = JStr("resources/read")
          /\ ~MissingUri(req)
          /\ ParamsOf(req).items.uri \in {NotAUrl, JNum(7)}

\* C17: POST /messages answers a body that is not parseable JSON with -32700,
\* a body that is no object or has no 'jsonrpc' with -32600, tools/call without
\* a name and resources/read without a uri with -32602, an exception raised
\* while handling with -32603, and every response has exactly one of 'result'
\* and 'error'.
C17_ErrorCodes ==
    \A req \in Requests :
        LET r == handle_messages(task_storage, req).response
            Code(c) == "error" \in DOMAIN r /\ r.error.code = c
        IN /\ ("result" \in DOMAIN r) # ("error" \in DOMAIN r)
           /\ req.json # "value" => Code(-32700)
           /\ (req.json = "value" /\ ~IsRpc(req)) => Code(-32600)
           /\ (MissingName(req) \/ MissingUri(req)) => Code(-32602)
           /\ RaisesInside(req) => Code(-32603)

\* the texts with which the tools report a failure of the call
ToolFailures ==
    {"unknown tool", "missing bv_number", "missing task_id", "task not found",
     "task in final state, cannot cancel", "task not completed"}

\* C18: on both MCP transports a tool call that fails (unknown tool, missing
\* argument, unknown task id, cancel of a final task, segments of a task that is
\* not Completed) is reported as an error: isError on the direct transport, an
\* error object and no result on the JSON-RPC transport.
C18_ToolFailuresAreErrors ==
    /\ \A request \in ToolCalls :
          LET r == mcp_call_tool(mcp_task_storage, request).response
          IN ("content" \in DOMAIN r /\ r.content[1].text.msg \in ToolFailures)
                 => r.isError
    /\ \A req \in Requests :
          LET r == handle_messages(task_storage, req).response
          IN ("result" \in DOMAIN r /\ "content" \in DOMAIN r.result)
                 => r.result.content[1].text.msg \notin ToolFailures

\* the request is answered with a failure, or is one of the reading requests
FailsOrReads(response) ==
    \/ "status_code" \in DOMAIN response
    \/ "error" \in DOMAIN response
    \/ "isError" \in DOMAIN response /\ response.isError
    \/ /\ "result" \in DOMAIN response
       /\ \/ "content" \notin DOMAIN response.result
          \/ response.result.content[1].text.msg
                 \in ToolFailures \cup {"status", "segments"}
    \/ /\ "isError" \in DOMAIN response
       /\ response.content[1].text.msg \in {"status", "segments"}

\* C19: a request that ends in a failure (unknown id, bad index, segments or
\* download too early, cancel of a final task, missing argument, unknown tool or
\* method, malformed JSON-RPC) and a request that only reads (status, segments,
\* download, tools and resources listings, resource read) leave both task
\* stores as they are and schedule nothing: no step that writes is the step of
\* such a request.
C19_FailuresAndReadsWriteNothing ==
    /\ [](\A req \in Requests :
            LET a == handle_messages(task_storage, req)
            IN FailsOrReads(a.response) => a.effect = NoEffect)
    /\ [](\A request \in ToolCalls :
            LET a == mcp_call_tool(mcp_task_storage, request)
            IN FailsOrReads(a.response) => a.effect = NoEffect)
    /\ [][Writes
            => /\ ~(\/ GetTaskStatus \/ GetAudioSegments \/ DownloadAudioSegment
                    \/ McpListTools \/ McpListResources \/ McpReadResource)
               /\ \A req \in Requests :
                     FailsOrReads(handle_messages(task_storage, req).response)
                         => ~HandleMessages(req)
               /\ \A request \in ToolCalls :
                     FailsOrReads(mcp_call_tool(mcp_task_storage, request).response)
                         => ~McpCallTool(request)]_vars

\* C19 witness: a Completed task, for which a cancel is refused, a download with
\* index -1 is refused and the status is read.
C19_Witness ==
    \E t \in Tasks :
        /\ task_storage[t].status = COMPLETED
        /\ HasKey(task_storage[t], "segments")
        /\ handler = Idle
        /\ ~sse_cancel_task(task_storage, t).accept
        /\ download_audio_segment(task_storage, t, -1).status_code = 400
        /\ get_task_status(task_storage, t).status_code = 200

\* C20: the created_at of a record is the one its first write gave it, in every
\* later state of the record: no status update of the worker and no cancel
\* request changes it, in either store.
C20_CreatedAtFixed ==
    [][/\ \A t \in Tasks :
            t \in DOMAIN task_storage'
                => task_storage'[t].created_at = task_storage[t].created_at
       /\ \A t \in McpTasks :
            t \in DOMAIN mcp_task_storage'
                => mcp_task_storage'[t].created_at = mcp_task_storage[t].created_at]_vars

\* a JSON-RPC request with id 7 for the method, with the params
Rpc(method, params) ==
    Parsed(JDict([jsonrpc |-> JStr("2.0"), id |-> JNum(7), method |-> JStr(method),
                  params |-> params]))

\* the uris that resources/list returns on the JSON-RPC transport
SseListed ==
    LET r == handle_messages(task_storage, Rpc("resources/list", EmptyDict)).response
    IN IF "result" \in DOMAIN r THEN {x.uri : x \in r.result.resources} ELSE {}

\* the uris that GET /resources returns on the direct transport
McpListed == {x.uri : x \in mcp_list_resources(mcp_task_storage)}

\* C21: on both MCP transports resources/list returns the uri of a task exactly
\* when the status of the task is Completed, and resources/read of a listed uri
\* returns the record of that task with its segments and its metadata.
C21_ResourcesAreCompletedTasks ==
    /\ \A t \in Tasks :
          /\ TaskUri(t) \in SseListed <=> task_storage[t].status = COMPLETED
          /\ TaskUri(t) \in McpListed <=> task_storage[t].status = COMPLETED
    /\ \A t \in McpTasks :
          TaskUri(t) \in McpListed <=> mcp_task_storage[t].status = COMPLETED
    /\ \A t \in Tasks :
          TaskUri(t) \in SseListed
              => LET r == handle_messages(task_storage,
                              Rpc("resources/read", JDict([uri |-> TaskUri(t)]))).response
                 IN /\ "result" \in DOMAIN r
                    /\ HasKey(task_storage[t], "segments")
                    /\ HasKey(task_storage[t], "metadata")
                    /\ r.result.contents[1].text.segments = task_storage[t].segments
                    /\ r.result.contents[1].text.metadata = task_storage[t].metadata

\* sent is ordered as one stream must be: initialize, the server info, the
\* endpoint with the session id, then pings with the session id (and at most an
\* error event as the last one)
InOrder(session_id, sent) ==
    \A k \in 1..Len(sent) :
        /\ k = 1 => sent[k] = create_mcp_message("message", init_message)
        /\ k = 2 => sent[k] = create_mcp_message("message", init_response)
        /\ k = 3 => /\ sent[k].event = "endpoint"
                    /\ sent[k].data.endpoint = <<"/mcp/messages?session_id=", session_id>>
        /\ k > 3 => \/ sent[k].event = "ping" /\ sent[k].data.session_id = session_id
                    \/ sent[k].event = "error" /\ k = Len(sent)

\* C22: every stream of GET /sse emits the initialize message and the server
\* info first, then the endpoint event with its own session id, then only
\* pings, each with the session id of its stream; no two streams share a
\* session id, and what a stream has emitted is never taken back.
C22_StreamOrder ==
    /\ [](\A i \in 1..Len(streams) :
            /\ InOrder(streams[i].session_id, streams[i].sent)
            /\ streams[i].session_id \in DOMAIN sessions
            /\ \A j \in 1..Len(streams) :
                  streams[j].session_id = streams[i].session_id => j = i)
    /\ [][\A i \in 1..Len(streams) :
            /\ Len(streams'[i].sent) >= Len(streams[i].sent)
            /\ SubSeq(streams'[i].sent, 1, Len(streams[i].sent)) = streams[i].sent
            /\ streams'[i].session_id = streams[i].session_id]_vars

\* C22 witness: two streams are open and both have sent pings after their
\* handshake.
C22_Witness ==
    /\ Len(streams) = 2
    /\ Pings(1) = 2
    /\ Pings(2) >= 1
    /\ streams[1].pc # "closed"

\* the four tools of the service
FourTools ==
    {"create_audio_segmentation_task", "get_task_status", "get_audio_segments",
     "cancel_task"}

\* C23: a JSON-RPC tools/list request is answered with a result of exactly four
\* tools (create_audio_segmentation_task, get_task_status, get_audio_segments,
\* cancel_task) and the id of the request, and GET /tools of the direct
\* transport lists exactly the same four names.
C23_FourTools ==
    /\ \A request_id \in {JNull, JNum(1), JNum(7), JStr("a")} :
          LET r == handle_messages(task_storage,
                       Parsed(JDict([jsonrpc |-> JStr("2.0"), id |-> request_id,
                                     method |-> JStr("tools/list")]))).response
          IN /\ "result" \in DOMAIN r /\ "error" \notin DOMAIN r
             /\ r.id = request_id
             /\ Len(r.result.tools) = 4
             /\ {r.result.tools[k] : k \in 1..4} = FourTools
    /\ Len(mcp_list_tools.tools) = 4
    /\ {mcp_list_tools.tools[k].name : k \in DOMAIN mcp_list_tools.tools} = FourTools

\* C23 witness: tools/list with id 1 is answered with four tools while a task
\* is in its run.
C23_Witness ==
    /\ \E t \in Tasks : task_storage[t].status = PROCESSING
    /\ LET r == handle_messages(task_storage,
                    Parsed(JDict([jsonrpc |-> JStr("2.0"), id |-> JNum(1),
                                  method |-> JStr("tools/list")]))).response
       IN r.id = JNum(1) /\ Len(r.result.tools) = 4

\* the number of stages a run at position pc[t] has invoked when nothing but
\* the results of video_service and of os.listdir decides: one more stage after
\* every success
StagesDue(t) ==
    LET ok == Len(SelectSeq(returns[t], LAMBDA r : r.success))
    IN IF pc[t] \in {"none", "queued"} THEN 0
       ELSE IF ok < 3 THEN 1 + (IF ok < 2 THEN ok ELSE 2)
       ELSE IF pc[t] = "listdir" \/ error_message[t] # <<>> THEN 3
       ELSE 4

\* C24: an accepted cancel changes the stored record and nothing of the run:
\* the worker goes on to invoke every remaining stage, in order, as the results
\* of the stages alone decide, and every queued run reaches its end.
C24_CancelDoesNotPreempt ==
    /\ [][\A t \in Tasks :
            (task_storage[t].status # CANCELLED /\ task_storage'[t].status = CANCELLED)
                => UNCHANGED <<pc, calls, returns, disk, slice_files, error_message>>]_vars
    /\ [](\A t \in TaskIds : StageCalls(t) = SubSeq(Stages, 1, StagesDue(t)))
    /\ \A t \in TaskIds : (pc[t] = "queued") ~> (pc[t] = "done")

\* C24 witness: a cancel was accepted while split_audio ran or just after it
\* returned; the run stands before its last stage, with three stages invoked.
C24_Witness ==
    \E t \in Tasks :
        /\ task_storage[t].status = CANCELLED
        /\ pc[t] = "listdir"
        /\ calls[t] = <<"download_video", "extract_audio", "split_audio">>

\* C25: under every interleaving of a cancel handler with the worker thread, a
\* record the orchestrator has written as Completed or Failed is never
\* overwritten with Cancelled: the status test of the cancel handler and its
\* write act as one step with respect to the writes of the worker.
C25_CancelIsAtomic ==
    [][\A t \in Tasks :
          task_storage[t].status \in {COMPLETED, FAILED}
              => task_storage'[t].status # CANCELLED]_vars

\* the changes of status of a run without cancel
StatusSteps ==
    {<<PENDING, DOWNLOADING>>, <<DOWNLOADING, PROCESSING>>, <<PROCESSING, COMPLETED>>,
     <<DOWNLOADING, FAILED>>, <<PROCESSING, FAILED>>}

\* C26: a record starts as Pending, and as long as no cancel has made it
\* Cancelled its status changes only along Pending, Downloading, Processing,
\* Completed, or from Downloading or Processing to Failed: no status is
\* skipped, Failed is not entered from Pending, and Completed and Failed are
\* not left.
C26_StatusSequence ==
    [][\A t \in TaskIds :
          /\ (t \notin Tasks /\ t \in DOMAIN task_storage')
                => task_storage'[t].status = PENDING
          /\ (/\ t \in Tasks
              /\ task_storage'[t].status # task_storage[t].status
              /\ CANCELLED \notin {task_storage[t].status, task_storage'[t].status})
                => <<task_storage[t].status, task_storage'[t].status>> \in StatusSteps]_vars

\* C26 witness: a run that failed in extract_audio: Pending, Downloading,
\* Processing, Failed.
C26_Witness ==
    \E t \in Tasks :
        /\ task_storage[t].status = FAILED
        /\ pc[t] = "done"
        /\ Len(returns[t]) = 2
        /\ handler = Idle

\* the progress values a record of the status may have
ProgressOf(status) ==
    IF status \in {PENDING, DOWNLOADING, FAILED, CANCELLED} THEN {0}
    ELSE IF status = PROCESSING THEN {30, 60}
    ELSE IF status = COMPLETED THEN {100}
    ELSE {}

\* C27: in every reachable state the status of every record, in both stores,
\* is one of the six values and its progress is the one of the status: 0 for
\* Pending, Downloading, Failed and Cancelled, 30 or 60 for Processing, 100 for
\* Completed; hence within 0..100.
C27_ProgressByStatus ==
    /\ \A t \in Tasks :
          /\ task_storage[t].status
                 \in {PENDING, DOWNLOADING, PROCESSING, COMPLETED, FAILED, CANCELLED}
          /\ task_storage[t].progress \in ProgressOf(task_storage[t].status)
          /\ task_storage[t].progress \in 0..100
    /\ \A t \in McpTasks :
          /\ mcp_task_storage[t].status
                 \in {PENDING, DOWNLOADING, PROCESSING, COMPLETED, FAILED, CANCELLED}
          /\ mcp_task_storage[t].progress \in ProgressOf(mcp_task_storage[t].status)
          /\ mcp_task_storage[t].progress \in 0..100

\* C27 witness: a record cancelled after the write of Processing 60 has
\* progress 0.
C27_Witness ==
    \E t \in Tasks :
        /\ task_storage[t].status = CANCELLED
        /\ pc[t] = "split_audio"
        /\ task_storage[t].progress = 0

\* C28: for every Completed task, metadata.total_duration is
\* metadata.segment_count times the seconds of one segment that split_audio
\* used (45 by default), for every number of segments.
C28_TotalDuration ==
    \A t \in Tasks :
        (task_storage[t].status = COMPLETED /\ HasKey(task_storage[t], "metadata"))
            => task_storage[t].metadata.total_duration
                   = task_storage[t].metadata.segment_count * segment_time

\* C29: for every number n of segment files, the segments of a Completed task
\* are in the order in which they were cut: segments[i] is the file with ordinal
\* i, for all 0 <= i < n.
C29_SegmentsInOrder ==
    \A t \in Tasks :
        (task_storage[t].status = COMPLETED /\ HasKey(task_storage[t], "segments"))
            => \A i \in 1..Len(task_storage[t].segments) :
                  task_storage[t].segments[i] = SegmentPath(t, Pad3(i - 1))

\* C30: every change of a record, by a status update of the orchestrator, by an
\* accepted cancel or by the attachment of segments and metadata, leaves
\* updated_at at the time of the change and never earlier than it was.
C30_UpdatedAtRefreshed ==
    [][/\ \A t \in Tasks :
            task_storage'[t] # task_storage[t]
                => /\ task_storage'[t].updated_at = now
                   /\ task_storage'[t].updated_at >= task_storage[t].updated_at
       /\ \A t \in McpTasks :
            mcp_task_storage'[t] # mcp_task_storage[t]
                => /\ mcp_task_storage'[t].updated_at = now
                   /\ mcp_task_storage'[t].updated_at >= mcp_task_storage[t].updated_at]_vars

\* C31: an update of a record that exists changes only the fields it is given:
\* segments and metadata once attached stay as they are, a result_url once
\* written stays (no update after it gives another), and eta, processed_slices
\* and total_slices are kept.
C31_UpdateMerges ==
    [][\A t \in Tasks :
          LET old == task_storage[t]
              new == task_storage'[t]
          IN /\ HasKey(old, "segments")
                   => HasKey(new, "segments") /\ new.segments = old.segments
             /\ HasKey(old, "metadata")
                   => HasKey(new, "metadata") /\ new.metadata = old.metadata
             /\ old.result_url # NoUrl => new.result_url = old.result_url
             /\ new.eta = old.eta
             /\ new.processed_slices = old.processed_slices
             /\ new.total_slices = old.total_slices]_vars

\* the state of the run of task t and its records
OfTask(t) ==
    <<IF t \in Tasks THEN <<task_storage[t]>> ELSE <<>>,
      IF t \in McpTasks THEN <<mcp_task_storage[t]>> ELSE <<>>,
      pc[t], error_message[t], slice_files[t], calls[t], returns[t], disk[t]>>

\* C32: under every interleaving of the runs and the cancel requests of several
\* tasks, a step of the run of task A, a cancel of A and the creation of A
\* leave the record and the run of every other task B as they are: every step
\* changes what belongs to one task at most.
C32_TasksIndependent ==
    /\ [][\A a \in TaskIds :
            (process_video_task(a) \/ OfTask(a)' # OfTask(a))
                => \A b \in TaskIds \ {a} : OfTask(b)' = OfTask(b)]_vars
    /\ [][SseCancelWrite
            => \A b \in TaskIds \ {handler.task_id} : OfTask(b)' = OfTask(b)]_vars

\* C32 witness: two tasks ran to their ends; one is Failed, the other is
\* Completed with its segments and metadata.
C32_Witness ==
    /\ 1 \in Tasks /\ 2 \in Tasks
    /\ task_storage[1].status = FAILED
    /\ task_storage[2].status = COMPLETED
    /\ HasKey(task_storage[2], "metadata")
    /\ pc[1] = "done" /\ pc[2] = "done"

\* the calls of get_task_status, get_audio_segments and cancel_task that either
\* transport may receive
SharedToolCalls == {call \in ToolCalls : call.name \in {ToolNames[2], ToolNames[3], ToolNames[4]}}

\* the two call_tool functions on one store and one call: both raise, or both
\* return the same text and ask for the same write
SameTool(store, call) ==
    LET s == sse_call_tool(store, JStr(call.name), call.arguments)
        r == mcp_call_tool(store, call)
    IN IF s.raises
       THEN r.response = InternalServerError /\ r.effect = NoEffect
       ELSE /\ r.response # InternalServerError
            /\ r.response.content = <<s.content>>
            /\ r.effect = s.effect

\* C33: on the same store and the same get_task_status, get_audio_segments or
\* cancel_task call, the call_tool of mcp_routes and the call_tool of mcp_sse
\* take the same branch (the same text, the same acceptance of a cancel) and make
\* the same write: the record an accepted cancel leaves is the same on both.
C33_SameToolLogic ==
    \A store \in {task_storage, mcp_task_storage} :
        /\ \A call \in SharedToolCalls : SameTool(store, call)
        /\ \A id \in DOMAIN store :
              /\ sse_cancel_task(store, id).accept = mcp_cancel_task(store, id).accept
              /\ update_task_status(store, id, CANCELLED, 0, <<"task cancelled">>, NoUrl)
                    = mcp_update_task_status(store, id, CANCELLED, 0,
                                             <<"task cancelled">>, NoUrl)

\* C33 witness: a Completed record whose segments both transports list, the cancel
\* of which both refuse.
C33_Witness ==
    /\ 1 \in Tasks
    /\ task_storage[1].status = COMPLETED
    /\ ~mcp_get_audio_segments(task_storage, 1).isError
    /\ sse_get_audio_segments(task_storage, 1).text.msg = "segments"
    /\ ~sse_cancel_task(task_storage, 1).accept
    /\ ~mcp_cancel_task(task_storage, 1).accept

\* C34: once the orchestrator of a task has run to its end, the status of the
\* record is Completed or Failed, whatever cancel was accepted before the
\* orchestrator's last write: it is never Cancelled.
C34_OutcomeIsLast ==
    \A t \in Tasks :
        pc[t] = "done" => task_storage[t].status \in {COMPLETED, FAILED}

Called(t, c) == \E i \in DOMAIN calls[t] : calls[t][i] = c

\* C36: a task for which cleanup_temp_files was called never had its record
\* written Completed by the orchestrator, and the other way round; the call is
\* made in the except branch only, after a stage failed or the listing raised,
\* and before the Failed write; no step of the program removes a file of a task
\* whose orchestrator wrote Completed.
C36_CleanupXorCompleted ==
    /\ [](\A t \in TaskIds : ~(Called(t, "cleanup_temp_files") /\ Called(t, "finalize")))
    /\ [][\A t \in TaskIds :
            /\ (~Called(t, "cleanup_temp_files") /\ Called(t, "cleanup_temp_files")')
                  => /\ pc[t] = "except"
                     /\ error_message[t] # <<>>
                     /\ task_storage[t].status \notin {COMPLETED, FAILED}
                     /\ task_storage'[t] = task_storage[t]
                     /\ pc'[t] = "write_failed"
            /\ WriteFailed(t) => Called(t, "cleanup_temp_files")
            /\ (Called(t, "finalize") /\ disk'[t] # disk[t])
                  => \E f \in disk[t].slices : ExternalFileRemoved(t, f)]_vars

\* C36 witness: the split wrote its files, the listing raised, cleanup removed
\* the directory and the record was then written Failed.
C36_Witness ==
    /\ 1 \in Tasks
    /\ pc[1] = "done"
    /\ task_storage[1].status = FAILED
    /\ calls[1] = <<"download_video", "extract_audio", "split_audio", "cleanup_temp_files">>
    /\ returns[1][3].success
    /\ disk[1] = NoDisk

\* C37: the sessions table only grows: a stream that opens adds exactly one
\* entry under an id the table did not have, no other step adds or removes an
\* entry (not the end of a stream by disconnect or by an error), so the
\* active_sessions of mcp_health never decreases and is the number of streams
\* opened so far.
C37_SessionsOnlyGrow ==
    /\ [](mcp_health.active_sessions = Len(streams))
    /\ [][/\ DOMAIN sessions \subseteq DOMAIN sessions'
          /\ mcp_health'.active_sessions >= mcp_health.active_sessions
          /\ IF Len(streams') # Len(streams)
             THEN /\ Len(streams') = Len(streams) + 1
                  /\ DOMAIN sessions' \ DOMAIN sessions
                        = {streams'[Len(streams')].session_id}
             ELSE DOMAIN sessions' = DOMAIN sessions]_vars

\* C37 witness: two streams were opened, one ended by disconnect and one by an
\* error, and mcp_health still counts two sessions.
C37_Witness ==
    /\ Len(streams) = 2
    /\ streams[1].pc = "closed"
    /\ streams[2].pc = "closed"
    /\ \E i \in 1..2 : streams[i].sent[Len(streams[i].sent)].event = "error"
    /\ \E i \in 1..2 : streams[i].sent[Len(streams[i].sent)].event # "error"
    /\ mcp_health.active_sessions = 2

====
